---- MODULE Spec2Model ----
(***************************************************************************)
(* State-machine model of static/js/report.js: the report page's fan-out   *)
(* of nine category requests (loadReportData), the merge into the global   *)
(* reportData, and the sequential section rendering of initializeReport    *)
(* (Spec); the classification and recommendation helpers, applied to       *)
(* inputs drawn from bounded sets, and the page's other global functions,  *)
(* each called once (ClassifierSpec); the values the renderers             *)
(* interpolate, with a section renderer called on the page before, during  *)
(* or after the build of a route whose payloads are drawn from bounded     *)
(* sets (RenderSpec); the sidebar and the mobile menu button (UiSpec); and *)
(* two calls of initializeReport, overlapping or in sequence (OverlapSpec).*)
(* FairSpec is the build of Spec with every response decodable and the     *)
(* continuations of the two async functions weakly fair: a settled promise *)
(* has its reaction job queued, and the job queue runs every job.          *)
(*                                                                         *)
(* JavaScript values are encoded as records: a string s is [str |-> s], a  *)
(* number n is [num |-> n], undefined is [undefined |-> TRUE], and an      *)
(* object is a record (a function on its property names).                  *)
(***************************************************************************)
EXTENDS Naturals, Integers, Sequences, FiniteSets

VARIABLES
    currentRouteId, \* report.js:4   global currentRouteId
    reportData,     \* report.js:5   global reportData
    overlay,        \* style.display of #loadingOverlay
    alerts,         \* the calls of alert: the text, and the display of
                    \* #loadingOverlay while the dialog is open
    console,        \* arguments of the calls of console.error
    requests,       \* URLs passed to fetch, in call order
    network,        \* what the route-data service did with request i
    promises,       \* the promise chain built for endpoint i (line 58-63)
    pc,             \* position of initializeReport / loadReportData
    dom,            \* innerHTML of the report containers
    ran,            \* section renderers invoked, in call order
    navigation,     \* setupSidebarNavigation has run
    applied,        \* the helper function that was called, "none" before
    input,          \* the argument(s) of the call, or the payloads the
                    \* route-data service holds for the route
    result,         \* what the call returned, or the error it raised
    activeLinks,    \* the sidebar links whose classList has 'active'
    event,          \* the last click, scroll, resize or DOMContentLoaded
    menuButtons,    \* number of .mobile-menu-btn elements in .nav-container
    innerWidth,     \* window.innerWidth
    narrowest,      \* the smallest window.innerWidth since the page loaded
    opened,         \* URLs passed to window.open
    readyState,     \* "loading" until the document fired DOMContentLoaded
    second          \* a second call of initializeReport: its locals

\* The state of the report page.
pageVars == <<currentRouteId, reportData, overlay, alerts, console, requests,
              network, promises, pc, dom, ran, navigation>>

\* One call of a helper function.
callVars == <<applied, input, result>>

\* The sidebar and the navigation bar.
uiVars == <<activeLinks, event, menuButtons, innerWidth, narrowest, opened,
            readyState>>

vars == <<currentRouteId, reportData, overlay, alerts, console, requests,
          network, promises, pc, dom, ran, navigation, applied, input, result,
          activeLinks, event, menuButtons, innerWidth, narrowest, opened,
          readyState, second>>

---------------------------------------------------------------------------
(* JavaScript values *)

Str(s) == [str |-> s]
Num(n) == [num |-> n]
Undefined == [undefined |-> TRUE]
Null == [null |-> TRUE]
NaN == [nan |-> TRUE]
Bool(b) == [bool |-> b]
EmptyObject == [k \in {} |-> Undefined]

\* An array with the elements of the sequence s.
Arr(s) == [array |-> s]

IsString(v) == "str" \in DOMAIN v
IsNumber(v) == "num" \in DOMAIN v

\* ToBoolean: undefined, null, NaN, false, "" and 0 are falsy; objects and
\* arrays are truthy.
Truthy(v) ==
    /\ v # Undefined
    /\ v # Null
    /\ v # NaN
    /\ v # Bool(FALSE)
    /\ (IsString(v) => v.str # "")
    /\ (IsNumber(v) => v.num # 0)

\* obj[key], undefined when the property is absent.
Get(obj, key) == IF key \in DOMAIN obj THEN obj[key] ELSE Undefined

\* obj?.[key]: undefined when obj is undefined or null.
OptGet(obj, key) == IF obj \in {Undefined, Null} THEN Undefined ELSE Get(obj, key)

\* value.length: the number of elements of an array, the number of
\* characters of a string, the property named length of an object, and
\* undefined for a number or a boolean.
Length(value) ==
    IF "array" \in DOMAIN value THEN Num(Len(value.array))
    ELSE IF IsString(value) THEN Num(Len(value.str))
    ELSE Get(value, "length")

\* list.slice(0, end) of an array.
slice(list, end) ==
    Arr(SubSeq(list.array, 1,
               IF Len(list.array) < end THEN Len(list.array) ELSE end))

\* a || b
OrElse(a, b) == IF Truthy(a) THEN a ELSE b

---------------------------------------------------------------------------
(* The route-data service, as seen through fetch *)

RouteIds == {"route-A", "route-B"}

\* The values of route_id the report page is rendered with,
\* route_report.html:288: a route's identifier, or nothing.
RenderedRouteIds == {"", "route-A"}

endpoints ==
    <<"overview", "turns", "pois", "network", "weather",
      "compliance", "elevation", "emergency", "traffic">>

Slots == 1..Len(endpoints)

EndpointSet == {endpoints[i] : i \in Slots}

Url(routeId, endpoint) == <<"api", "routes", routeId, endpoint>>

\* fetch rejects with a TypeError when the network fails.
NetworkError == [name |-> "TypeError", message |-> Str("Failed to fetch")]

\* response.json() rejects with a SyntaxError when the body is not JSON.
DecodeError ==
    [name |-> "SyntaxError",
     message |-> Str("Unexpected token < in JSON at position 0")]

\* A well-formed payload of each category: the fields the renderers branch on.
Payload(endpoint) ==
    CASE endpoint = "overview" ->
            [statistics |-> [safety_score |-> Num(85),
                             risk_level |-> Str("LOW"),
                             critical_turns |-> Num(1)]]
      [] endpoint = "turns" -> [total_turns |-> Num(4)]
      [] endpoint = "pois" -> [statistics |-> [coverage_score |-> Num(75)]]
      [] endpoint = "network" ->
            [statistics |-> [overall_coverage_score |-> Num(90)]]
      [] endpoint = "weather" ->
            [statistics |-> [average_temperature |-> Num(25)]]
      [] endpoint = "compliance" ->
            [compliance_assessment |-> [overall_score |-> Num(70)]]
      [] endpoint = "elevation" ->
            [statistics |-> [elevation_range |-> Num(300)]]
      [] endpoint = "emergency" -> [emergency_score |-> Num(65)]
      [] endpoint = "traffic" ->
            [statistics |-> [overall_traffic_score |-> Num(55)]]

\* A decodable overview body whose risk_level is a number, not a string:
\* {"statistics": {"safety_score": 85, "risk_level": 3, "critical_turns": 1}}
NumericRiskOverview ==
    [statistics |-> [safety_score |-> Num(85),
                     risk_level |-> Num(3),
                     critical_turns |-> Num(1)]]

\* The JSON bodies response.json() may decode for an endpoint.
Bodies(endpoint) ==
    IF endpoint = "overview"
    THEN {Payload(endpoint), NumericRiskOverview}
    ELSE {Payload(endpoint)}

---------------------------------------------------------------------------
(* The promise chain of loadReportData, report.js:58-66 *)

Pending == [state |-> "pending", value |-> Undefined]
Fulfilled(v) == [state |-> "fulfilled", value |-> v]
Rejected(e) == [state |-> "rejected", value |-> e]

\* Variant of thenWrap: { endpoint: data }, a literal key instead of the
\* computed one.
thenWrapLiteralKey(endpoint, data) == Fulfilled([k \in {"endpoint"} |-> data])

\* data => ({ [endpoint]: data })
thenWrap(endpoint, data) == Fulfilled([k \in {endpoint} |-> data])

\* Variant of catchHandler: the chain has no catch, the rejection passes on.
catchHandlerRethrows(endpoint, error) == Rejected(error)

\* Variant of catchHandler: { [endpoint]: error.message }, the message
\* stored bare instead of inside an { error } object.
catchHandlerBareMessage(endpoint, error) ==
    Fulfilled([k \in {endpoint} |-> error.message])

\* error => ({ [endpoint]: { error: error.message } })
catchHandler(endpoint, error) ==
    Fulfilled([k \in {endpoint} |-> [error |-> error.message]])

\* Variant of fetchAll: only the first fetch is issued before control returns
\* to the event loop (an await inside a loop over the endpoints).
fetchFirstOnly(routeId) == [i \in {1} |-> Url(routeId, endpoints[i])]
\* Variant of fetchAll: the overview endpoint is requested a second time after
\* the nine.
fetchAllOverviewTwice(routeId) ==
    [i \in 1..(Len(endpoints) + 1) |->
        Url(routeId, IF i > Len(endpoints) THEN "overview" ELSE endpoints[i])]

\* endpoints.map(endpoint => fetch(`/api/routes/${routeId}/${endpoint}`)...):
\* the URLs fetched by the synchronous map, in call order.
fetchAll(routeId) == [i \in Slots |-> Url(routeId, endpoints[i])]

\* Variant of PromiseAll: fulfilled as soon as one input is fulfilled, with
\* undefined for the inputs still pending.
PromiseAny(ps) ==
    IF \E i \in DOMAIN ps : ps[i].state = "rejected"
    THEN Rejected((ps[CHOOSE i \in DOMAIN ps : ps[i].state = "rejected"]).value)
    ELSE IF \E i \in DOMAIN ps : ps[i].state = "fulfilled"
         THEN Fulfilled([i \in DOMAIN ps |-> ps[i].value])
         ELSE Pending
\* Variant of PromiseAll: the promises are not awaited, each is read as it
\* stands (undefined while pending).
PromiseAllUnawaited(ps) == Fulfilled([i \in DOMAIN ps |-> ps[i].value])

\* Promise.all: rejected as soon as one input is rejected, fulfilled with the
\* values in input order once every input is fulfilled, pending otherwise.
PromiseAll(ps) ==
    IF \E i \in DOMAIN ps : ps[i].state = "rejected"
    THEN Rejected((ps[CHOOSE i \in DOMAIN ps : ps[i].state = "rejected"]).value)
    ELSE IF \A i \in DOMAIN ps : ps[i].state = "fulfilled"
         THEN Fulfilled([i \in DOMAIN ps |-> ps[i].value])
         ELSE Pending
\* Variant of AssignOne: the source replaces the target instead of being
\* merged into it.
AssignOneReplaces(target, source) ==
    IF source = Undefined THEN target ELSE source

\* One step of Object.assign: own properties of source overwrite target's;
\* an undefined source is skipped.
AssignOne(target, source) ==
    IF source = Undefined THEN target
    ELSE [k \in DOMAIN target \cup DOMAIN source |->
             IF k \in DOMAIN source THEN source[k] ELSE target[k]]

RECURSIVE AssignFrom(_, _, _)
AssignFrom(target, sources, i) ==
    IF i > Len(sources) THEN target
    ELSE AssignFrom(AssignOne(target, sources[i]), sources, i + 1)

\* Variant of ObjectAssign: results that carry an error are filtered out
\* before the merge.
ObjectAssignSkipsErrors(results) ==
    AssignFrom(EmptyObject,
               SelectSeq(results,
                         LAMBDA r : \A k \in DOMAIN r : ~Truthy(Get(r[k], "error"))),
               1)

\* Object.assign({}, ...results)
ObjectAssign(results) == AssignFrom(EmptyObject, results, 1)

---------------------------------------------------------------------------
(* Classification helpers, report.js:1399-1522 *)

\* The strings of the model that have an upper-case letter, each with its
\* lower-case form: <<lower-case form, the variants that lower to it>>.
CaseTable ==
    {<<"critical", {"Critical", "CRITICAL"}>>,
     <<"high", {"High", "HIGH"}>>,
     <<"medium", {"Medium", "MEDIUM"}>>,
     <<"moderate", {"Moderate", "MODERATE"}>>,
     <<"low", {"Low", "LOW", "lOw"}>>,
     <<"unknown", {"Unknown"}>>,
     <<"catastrophic", {"Catastrophic"}>>,
     <<"plains", {"Plains", "PLAINS"}>>,
     <<"hilly", {"Hilly", "HILLY"}>>,
     <<"high_plateau", {"High_Plateau", "HIGH_PLATEAU"}>>,
     <<"mountainous", {"Mountainous", "MOUNTAINOUS"}>>,
     <<"clear", {"Clear", "CLEAR"}>>,
     <<"sunny", {"Sunny", "SUNNY"}>>,
     <<"clouds", {"Clouds", "CLOUDS"}>>,
     <<"cloudy", {"Cloudy", "CLOUDY"}>>,
     <<"rain", {"Rain", "RAIN", "rAiN"}>>,
     <<"drizzle", {"Drizzle", "DRIZZLE"}>>,
     <<"thunderstorm", {"Thunderstorm", "THUNDERSTORM"}>>,
     <<"snow", {"Snow", "SNOW"}>>,
     <<"mist", {"Mist", "MIST"}>>,
     <<"fog", {"Fog", "FOG"}>>,
     <<"haze", {"Haze", "HAZE"}>>,
     <<"storm", {"Storm", "STORM"}>>,
     <<"heavy rain", {"Heavy Rain"}>>}

\* Strings of the model that are lower-case and in no vocabulary.
OtherWords == {"desert", "dust", "severe"}

Strings ==
    UNION {{t[1]} \cup t[2] : t \in CaseTable} \cup OtherWords

\* String.prototype.toLowerCase on the strings of the model.
toLowerCase(s) ==
    IF \E t \in CaseTable : s \in t[2]
    THEN (CHOOSE t \in CaseTable : s \in t[2])[1]
    ELSE s

\* String.prototype.includes (case-sensitive substring search) on the strings
\* of the model, for the two search strings the code uses.
includes(s, searchString) ==
    CASE searchString = "Rain" -> s \in {"Rain", "Heavy Rain"}
      [] searchString = "Storm" -> s \in {"Storm"}
      [] OTHER -> s = searchString

\* ToNumber, as applied by the relational operators: undefined is NaN, null
\* is 0, and a string that is not a numeral is NaN.
ToNumber(v) ==
    IF IsNumber(v) THEN v
    ELSE IF v = Null THEN Num(0)
    ELSE IF IsString(v) /\ v.str = "" THEN Num(0)
    ELSE NaN

\* a >= n, a <= n, a > n, a < n: false when a converts to NaN.
Ge(a, n) == LET x == ToNumber(a) IN IsNumber(x) /\ x.num >= n
Le(a, n) == LET x == ToNumber(a) IN IsNumber(x) /\ x.num <= n
Gt(a, n) == LET x == ToNumber(a) IN IsNumber(x) /\ x.num > n
Lt(a, n) == LET x == ToNumber(a) IN IsNumber(x) /\ x.num < n

\* The value of a call that raised instead of returning.
TypeError == [thrown |-> "TypeError"]

getStatusClass(score) ==
    IF Ge(score, 80) THEN Str("status-excellent")
    ELSE IF Ge(score, 60) THEN Str("status-good")
    ELSE IF Ge(score, 40) THEN Str("status-moderate")
    ELSE Str("status-poor")

getScoreLabel(score) ==
    IF Ge(score, 80) THEN Str("Excellent")
    ELSE IF Ge(score, 60) THEN Str("Good")
    ELSE IF Ge(score, 40) THEN Str("Moderate")
    ELSE Str("Poor")

\* Variant of getRiskClass: the switch has no default branch, so the function
\* returns undefined for a level outside the vocabulary.
getRiskClassNoDefault(riskLevel) ==
    IF riskLevel \in {Undefined, Null} THEN Undefined
    ELSE IF ~IsString(riskLevel) THEN TypeError
    ELSE LET level == toLowerCase(riskLevel.str) IN
         CASE level \in {"critical", "high"} -> Str("status-poor")
           [] level \in {"medium", "moderate"} -> Str("status-moderate")
           [] level = "low" -> Str("status-good")
           [] OTHER -> Undefined

\* switch (riskLevel?.toLowerCase()): undefined and null short-circuit to the
\* default branch, a value without a toLowerCase method raises a TypeError.
getRiskClass(riskLevel) ==
    IF riskLevel \in {Undefined, Null} THEN Str("status-moderate")
    ELSE IF ~IsString(riskLevel) THEN TypeError
    ELSE LET level == toLowerCase(riskLevel.str) IN
         CASE level \in {"critical", "high"} -> Str("status-poor")
           [] level \in {"medium", "moderate"} -> Str("status-moderate")
           [] level = "low" -> Str("status-good")
           [] OTHER -> Str("status-moderate")

getRiskDescription(riskLevel) ==
    IF riskLevel \in {Undefined, Null} THEN Str("Risk assessment pending")
    ELSE IF ~IsString(riskLevel) THEN TypeError
    ELSE LET level == toLowerCase(riskLevel.str) IN
         CASE level = "critical" -> Str("Immediate attention required")
           [] level = "high" -> Str("High caution advised")
           [] level \in {"medium", "moderate"} -> Str("Standard precautions")
           [] level = "low" -> Str("Minimal risk detected")
           [] OTHER -> Str("Risk assessment pending")

\* criticalTurns === 0 compares without conversion.
getTurnsClass(criticalTurns) ==
    IF criticalTurns = Num(0) THEN Str("status-excellent")
    ELSE IF Le(criticalTurns, 2) THEN Str("status-good")
    ELSE IF Le(criticalTurns, 5) THEN Str("status-moderate")
    ELSE Str("status-poor")

getTurnsLabel(criticalTurns) ==
    IF criticalTurns = Num(0) THEN Str("No critical turns")
    ELSE IF Le(criticalTurns, 2) THEN Str("Few critical turns")
    ELSE IF Le(criticalTurns, 5) THEN Str("Moderate concern")
    ELSE Str("High attention needed")

\* Variant of getComplianceClass: the top threshold is exclusive (score > 80).
getComplianceClassExclusive(score) ==
    IF Gt(score, 80) THEN Str("status-excellent")
    ELSE IF Ge(score, 60) THEN Str("status-moderate")
    ELSE Str("status-poor")

getComplianceClass(score) ==
    IF Ge(score, 80) THEN Str("status-excellent")
    ELSE IF Ge(score, 60) THEN Str("status-moderate")
    ELSE Str("status-poor")

getServiceClass(score) ==
    IF Ge(score, 80) THEN Str("status-excellent")
    ELSE IF Ge(score, 60) THEN Str("status-good")
    ELSE IF Ge(score, 40) THEN Str("status-moderate")
    ELSE Str("status-poor")

\* Variant of getCoverageClass: the thresholds of the safety score (80, 60,
\* 40), one table shared by all metrics.
getCoverageClassUnified(score) == getStatusClass(score)

getCoverageClass(score) ==
    IF Ge(score, 85) THEN Str("status-excellent")
    ELSE IF Ge(score, 70) THEN Str("status-good")
    ELSE IF Ge(score, 50) THEN Str("status-moderate")
    ELSE Str("status-poor")

\* Variant of getTrafficClass: the classes of the two middle bands swapped.
getTrafficClassSwappedBands(score) ==
    IF Ge(score, 80) THEN Str("status-excellent")
    ELSE IF Ge(score, 60) THEN Str("status-moderate")
    ELSE IF Ge(score, 40) THEN Str("status-good")
    ELSE Str("status-poor")

getTrafficClass(score) ==
    IF Ge(score, 80) THEN Str("status-excellent")
    ELSE IF Ge(score, 60) THEN Str("status-good")
    ELSE IF Ge(score, 40) THEN Str("status-moderate")
    ELSE Str("status-poor")

getTerrainClass(terrainType) ==
    IF terrainType \in {Undefined, Null} THEN Str("status-good")
    ELSE IF ~IsString(terrainType) THEN TypeError
    ELSE LET terrain == toLowerCase(terrainType.str) IN
         CASE terrain = "plains" -> Str("status-excellent")
           [] terrain \in {"hilly", "high_plateau"} -> Str("status-moderate")
           [] terrain = "mountainous" -> Str("status-poor")
           [] OTHER -> Str("status-good")

getEmergencyClass(score) ==
    IF Ge(score, 80) THEN Str("status-excellent")
    ELSE IF Ge(score, 60) THEN Str("status-good")
    ELSE Str("status-poor")

\* iconMap[key]: undefined for a key the map does not hold.
iconMap(key) ==
    CASE key \in {"clear", "sunny"} -> Str("fas fa-sun")
      [] key \in {"clouds", "cloudy"} -> Str("fas fa-cloud")
      [] key = "rain" -> Str("fas fa-cloud-rain")
      [] key = "drizzle" -> Str("fas fa-cloud-drizzle")
      [] key = "thunderstorm" -> Str("fas fa-bolt")
      [] key = "snow" -> Str("fas fa-snowflake")
      [] key \in {"mist", "fog", "haze"} -> Str("fas fa-smog")
      [] OTHER -> Undefined

\* condition.toLowerCase() without optional chaining: undefined, null and a
\* value without a toLowerCase method raise a TypeError.
getWeatherIcon(condition) ==
    IF ~IsString(condition) THEN TypeError
    ELSE OrElse(iconMap(toLowerCase(condition.str)), Str("fas fa-cloud"))

---------------------------------------------------------------------------
(* Recommendation helpers, report.js:1267-1295 *)

HotWeatherPreparations ==
    <<"<li>Check engine cooling system and radiator fluid levels</li>",
      "<li>Ensure air conditioning is functioning properly</li>",
      "<li>Carry extra water for radiator and personal hydration</li>">>

ColdWeatherPreparations ==
    <<"<li>Check battery condition (cold weather reduces capacity)</li>",
      "<li>Ensure proper engine oil viscosity for cold weather</li>",
      "<li>Check tire tread depth for wet/icy conditions</li>">>

WetWeatherPreparations ==
    <<"<li>Check windshield wipers and washer fluid</li>",
      "<li>Ensure headlights and taillights are functioning</li>",
      "<li>Check tire tread depth for wet road traction</li>">>

StandardPreparations ==
    <<"<li>Standard vehicle maintenance check recommended</li>",
      "<li>Ensure all fluid levels are adequate</li>",
      "<li>Check tire condition and pressure</li>">>

\* Variant of generateWeatherPreparation: the fallback of lines 1288-1292 is
\* missing, so the list stays empty when no rule fires.
generateWeatherPreparationNoFallback(avgTemp, conditions) ==
    LET hot == IF Gt(avgTemp, 35) THEN HotWeatherPreparations ELSE <<>>
        cold == IF Lt(avgTemp, 10) THEN ColdWeatherPreparations ELSE <<>>
        wet == IF \E c \in DOMAIN conditions :
                      includes(c, "Rain") \/ includes(c, "Storm")
               THEN WetWeatherPreparations ELSE <<>>
    IN hot \o cold \o wet

\* The items pushed onto preparations, in order; the code returns them joined
\* into one string.  Object.keys(conditions) are the condition names.
generateWeatherPreparation(avgTemp, conditions) ==
    LET hot == IF Gt(avgTemp, 35) THEN HotWeatherPreparations ELSE <<>>
        cold == IF Lt(avgTemp, 10) THEN ColdWeatherPreparations ELSE <<>>
        wet == IF \E c \in DOMAIN conditions :
                      includes(c, "Rain") \/ includes(c, "Storm")
               THEN WetWeatherPreparations ELSE <<>>
        preparations == hot \o cold \o wet
    IN IF Len(preparations) = 0 THEN StandardPreparations ELSE preparations

\* populateWeatherAnalysis, lines 606-607 and 648: the list it renders under
\* "Weather-Based Vehicle Preparation" for the payload weather.
weatherPreparation(weather) ==
    LET statistics == OrElse(Get(weather, "statistics"), EmptyObject)
        conditions == OrElse(Get(weather, "conditions_summary"), EmptyObject)
    IN generateWeatherPreparation(
           OrElse(Get(statistics, "average_temperature"), Num(25)), conditions)

\* An item of the traffic recommendations is the sequence of the parts of its
\* template literal: the text, and the interpolated values.
HeavyTrafficRecommendations(heavySegments) ==
    <<<<"<li>Route has ", heavySegments,
        " heavily congested segments - consider alternative routes</li>">>,
      <<"<li>Plan for significant delays during peak hours</li>">>>>

ModerateTrafficRecommendations(moderateSegments) ==
    <<<<"<li>", moderateSegments,
        " segments have moderate traffic - allow extra travel time</li>">>>>

LowScoreRecommendations ==
    <<<<"<li>Consider traveling during off-peak hours to avoid traffic</li>">>,
      <<"<li>Use real-time navigation apps for dynamic route optimization</li>">>>>

GeneralTrafficRecommendations ==
    <<<<"<li>Check current traffic conditions before departure</li>">>,
      <<"<li>Plan rest stops during low-traffic segments</li>">>>>

\* Variant of generateTrafficRecommendations: the rules form one else-if
\* chain, so at most one of them contributes.
generateTrafficRecommendationsExclusive(trafficScore, congestion) ==
    LET heavySegments == OrElse(Get(congestion, "heavy_traffic_segments"), Num(0))
        moderateSegments ==
            OrElse(Get(congestion, "moderate_traffic_segments"), Num(0))
    IN (IF Gt(heavySegments, 0) THEN HeavyTrafficRecommendations(heavySegments)
        ELSE IF Gt(moderateSegments, 0)
             THEN ModerateTrafficRecommendations(moderateSegments)
        ELSE IF Lt(trafficScore, 50) THEN LowScoreRecommendations
        ELSE <<>>)
       \o GeneralTrafficRecommendations

generateTrafficRecommendations(trafficScore, congestion) ==
    LET heavySegments == OrElse(Get(congestion, "heavy_traffic_segments"), Num(0))
        moderateSegments ==
            OrElse(Get(congestion, "moderate_traffic_segments"), Num(0))
        heavy == IF Gt(heavySegments, 0)
                 THEN HeavyTrafficRecommendations(heavySegments) ELSE <<>>
        moderate == IF Gt(moderateSegments, 0)
                    THEN ModerateTrafficRecommendations(moderateSegments)
                    ELSE <<>>
        lowScore == IF Lt(trafficScore, 50) THEN LowScoreRecommendations ELSE <<>>
    IN heavy \o moderate \o lowScore \o GeneralTrafficRecommendations

SteepTerrainChallenges ==
    <<"<li>Steep gradients requiring low gear driving and engine braking</li>",
      "<li>Increased fuel consumption due to elevation changes</li>",
      "<li>Potential engine overheating on long climbs</li>",
      "<li>Brake wear due to frequent downhill braking</li>">>

ModerateTerrainChallenges ==
    <<"<li>Moderate gradients affecting fuel efficiency</li>",
      "<li>Some engine strain on uphill sections</li>",
      "<li>Occasional brake usage on downhill sections</li>">>

FlatTerrainChallenges ==
    <<"<li>Minimal elevation changes with flat terrain</li>",
      "<li>Normal fuel consumption expected</li>",
      "<li>Standard vehicle performance throughout</li>">>

\* difficulty === 'HIGH' compares without conversion.
generateTerrainChallenges(difficulty, elevationRange) ==
    IF difficulty = Str("HIGH") \/ Gt(elevationRange, 1000)
    THEN SteepTerrainChallenges
    ELSE IF difficulty = Str("MEDIUM") \/ Gt(elevationRange, 500)
    THEN ModerateTerrainChallenges
    ELSE FlatTerrainChallenges

HighElevationPreparations ==
    <<"<li>Check engine cooling system - radiator, coolant levels, and fans</li>",
      "<li>Inspect brake system - pads, fluid, and brake lines condition</li>",
      "<li>Verify transmission fluid for proper gear shifting</li>",
      "<li>Ensure fuel tank is full - higher consumption expected</li>",
      "<li>Carry emergency coolant and brake fluid</li>">>

MediumElevationPreparations ==
    <<"<li>Check cooling system and fluid levels</li>",
      "<li>Inspect brake system condition</li>",
      "<li>Verify fuel level and plan refueling stops</li>">>

LowElevationPreparations ==
    <<"<li>Standard vehicle maintenance check sufficient</li>",
      "<li>Normal fuel planning adequate</li>">>

generateElevationPreparation(elevationRange) ==
    IF Gt(elevationRange, 1000) THEN HighElevationPreparations
    ELSE IF Gt(elevationRange, 500) THEN MediumElevationPreparations
    ELSE LowElevationPreparations

---------------------------------------------------------------------------
(* The turn classification table, report.js:438-481 *)

\* Variant of TurnTable: the speeds of the 80-90 and the 70-80 rows are
\* exchanged.
TurnTableSwappedSpeeds ==
    <<[range |-> <<90>>, classification |-> "EXTREME BLIND SPOT",
       risk |-> "CRITICAL", speed |-> 15],
      [range |-> <<80, 90>>, classification |-> "HIGH-RISK BLIND SPOT",
       risk |-> "EXTREME", speed |-> 25],
      [range |-> <<70, 80>>, classification |-> "BLIND SPOT",
       risk |-> "HIGH", speed |-> 20],
      [range |-> <<60, 70>>, classification |-> "HIGH-ANGLE TURN",
       risk |-> "MEDIUM", speed |-> 30]>>

\* The rows of the table, in the order of the template.  range holds the
\* numbers of the Angle Range cell (">=90", "80-90", "70-80", "60-70"), speed
\* the number of the Max Speed cell in km/h.
TurnTable ==
    <<[range |-> <<90>>, classification |-> "EXTREME BLIND SPOT",
       risk |-> "CRITICAL", speed |-> 15],
      [range |-> <<80, 90>>, classification |-> "HIGH-RISK BLIND SPOT",
       risk |-> "EXTREME", speed |-> 20],
      [range |-> <<70, 80>>, classification |-> "BLIND SPOT",
       risk |-> "HIGH", speed |-> 25],
      [range |-> <<60, 70>>, classification |-> "HIGH-ANGLE TURN",
       risk |-> "MEDIUM", speed |-> 30]>>

\* Variant of InBand: a band includes its upper bound too.
InBandClosedUpper(row, angle) ==
    /\ angle >= row.range[1]
    /\ Len(row.range) = 2 => angle <= row.range[2]

\* A band includes its lower bound and excludes its upper bound, the lower
\* bound of the band above it.
InBand(row, angle) ==
    /\ angle >= row.range[1]
    /\ Len(row.range) = 2 => angle < row.range[2]

\* The rows of the table an angle falls into.
classifyTurn(angle) ==
    {TurnTable[i] : i \in {j \in DOMAIN TurnTable : InBand(TurnTable[j], angle)}}

---------------------------------------------------------------------------
(* What the section renderers interpolate into their templates *)

\* Variant of routeInfoCard: route_info and statistics are read without the
\* "|| {}" of lines 130-131, so a property of undefined is read.
routeInfoCardNoDefault(overview) ==
    LET routeInfo == Get(overview, "route_info")
        statistics == Get(overview, "statistics")
    IN IF routeInfo \in {Undefined, Null} \/ statistics \in {Undefined, Null}
       THEN TypeError
       ELSE [from_address |->
                 OrElse(Get(routeInfo, "from_address"), Str("Not specified")),
             to_address |->
                 OrElse(Get(routeInfo, "to_address"), Str("Not specified")),
             distance |->
                 OrElse(Get(routeInfo, "distance"), Str("Not calculated")),
             duration |->
                 OrElse(Get(routeInfo, "duration"), Str("Not calculated")),
             total_points |-> OrElse(Get(statistics, "total_points"), Num(0))]

\* populateOverviewSection, lines 130-143: the cells of routeInfoCard.
routeInfoCard(overview) ==
    LET routeInfo == OrElse(Get(overview, "route_info"), EmptyObject)
        statistics == OrElse(Get(overview, "statistics"), EmptyObject)
    IN [from_address |->
            OrElse(Get(routeInfo, "from_address"), Str("Not specified")),
        to_address |->
            OrElse(Get(routeInfo, "to_address"), Str("Not specified")),
        distance |-> OrElse(Get(routeInfo, "distance"), Str("Not calculated")),
        duration |-> OrElse(Get(routeInfo, "duration"), Str("Not calculated")),
        total_points |-> OrElse(Get(statistics, "total_points"), Num(0))]

\* populateOverviewSection, lines 146-155: the cells of statisticsCard.
statisticsCard(overview) ==
    LET statistics == OrElse(Get(overview, "statistics"), EmptyObject)
    IN [total_sharp_turns |->
            OrElse(Get(statistics, "total_sharp_turns"), Num(0)),
        critical_turns |-> OrElse(Get(statistics, "critical_turns"), Num(0)),
        total_pois |-> OrElse(Get(statistics, "total_pois"), Num(0)),
        safety_score |-> OrElse(Get(statistics, "safety_score"), Str("N/A")),
        risk_level |-> OrElse(Get(statistics, "risk_level"), Str("Unknown"))]

\* Variant of statusIndicators: getTurnsClass and getTurnsLabel are passed
\* statistics.critical_turns without the "|| 0" of lines 172 and 175.
statusIndicatorsRawTurns(overview) ==
    LET statistics == OrElse(Get(overview, "statistics"), EmptyObject)
        safetyScore == OrElse(Get(statistics, "safety_score"), Num(0))
        riskLevel == OrElse(Get(statistics, "risk_level"), Str("Unknown"))
        criticalTurns == OrElse(Get(statistics, "critical_turns"), Num(0))
    IN IF getRiskClass(riskLevel) = TypeError THEN TypeError
       ELSE [safetyClass |-> getStatusClass(safetyScore),
             safetyScore |-> safetyScore,
             safetyLabel |-> getScoreLabel(safetyScore),
             riskClass |-> getRiskClass(riskLevel),
             riskLevel |-> riskLevel,
             riskDescription |-> getRiskDescription(riskLevel),
             turnsClass |-> getTurnsClass(Get(statistics, "critical_turns")),
             criticalTurns |-> criticalTurns,
             turnsLabel |-> getTurnsLabel(Get(statistics, "critical_turns"))]

\* populateOverviewSection, lines 158-177: the three status indicators, or the
\* error a classifier raised.
statusIndicators(overview) ==
    LET statistics == OrElse(Get(overview, "statistics"), EmptyObject)
        safetyScore == OrElse(Get(statistics, "safety_score"), Num(0))
        riskLevel == OrElse(Get(statistics, "risk_level"), Str("Unknown"))
        criticalTurns == OrElse(Get(statistics, "critical_turns"), Num(0))
    IN IF getRiskClass(riskLevel) = TypeError THEN TypeError
       ELSE [safetyClass |-> getStatusClass(safetyScore),
             safetyScore |-> safetyScore,
             safetyLabel |-> getScoreLabel(safetyScore),
             riskClass |-> getRiskClass(riskLevel),
             riskLevel |-> riskLevel,
             riskDescription |-> getRiskDescription(riskLevel),
             turnsClass |-> getTurnsClass(criticalTurns),
             criticalTurns |-> criticalTurns,
             turnsLabel |-> getTurnsLabel(criticalTurns)]

\* populateOverviewSection past the guard of line 125, for a payload overview.
overviewSection(overview) ==
    IF TypeError \in {routeInfoCard(overview), statusIndicators(overview)}
    THEN TypeError
    ELSE [routeInfoCard |-> routeInfoCard(overview),
          statisticsCard |-> statisticsCard(overview),
          statusIndicators |-> statusIndicators(overview)]

\* populateRiskZones, lines 235-237: the three lists the summary counts, for
\* reportData.turns and reportData.network (coverage).
riskZones(turns, coverage) ==
    [criticalTurns |->
         OrElse(OptGet(Get(turns, "categorized_turns"), "extreme_blind_spots"),
                Arr(<<>>)),
     blindSpots |->
         OrElse(OptGet(Get(turns, "categorized_turns"), "blind_spots"),
                Arr(<<>>)),
     deadZones |->
         OrElse(OptGet(OptGet(coverage, "problem_areas"), "dead_zones"),
                Arr(<<>>))]

\* The bars of generateCongestionBars, in order.
congestionSegments ==
    <<[key |-> "free_flow_segments", label |-> "Free Flow"],
      [key |-> "light_traffic_segments", label |-> "Light Traffic"],
      [key |-> "moderate_traffic_segments", label |-> "Moderate Traffic"],
      [key |-> "heavy_traffic_segments", label |-> "Heavy Traffic"]>>

\* Object.values(obj).reduce((sum, val) => sum + (val || 0), 0) over the
\* properties keys of obj.
RECURSIVE SumValues(_, _)
SumValues(obj, keys) ==
    IF keys = {} THEN 0
    ELSE LET k == CHOOSE x \in keys : TRUE
         IN OrElse(obj[k], Num(0)).num + SumValues(obj, keys \ {k})

\* The quotients count / total, in lowest terms, for which the double
\* count / total * 100 lies just below the middle of two numbers with one
\* decimal (23 / 80 * 100 is 28.749999999999996, not 28.75), among the
\* counts up to 400 and the totals up to 200.
RoundedDown ==
    {<<23, 80>>, <<41, 80>>, <<51, 80>>, <<87, 80>>, <<97, 80>>, <<169, 80>>,
     <<179, 80>>, <<189, 80>>, <<199, 80>>, <<323, 80>>, <<333, 80>>,
     <<343, 80>>, <<353, 80>>, <<363, 80>>, <<373, 80>>, <<383, 80>>,
     <<393, 80>>}

\* (count / total * 100).toFixed(1), for a count of 0 to 400 and a total of 1
\* to 200: the integer part and the one decimal.  toFixed rounds the double
\* to the nearest number with one decimal, and up from the middle.
toFixed1(count, total) ==
    LET tenths == IF \E q \in RoundedDown : count * q[2] = q[1] * total
                  THEN (count * 2000) \div (2 * total)
                  ELSE (count * 2000 + total) \div (2 * total)
    IN <<tenths \div 10, tenths % 10>>

\* For each bar its label, its count and its percentage; the percentage is 0
\* when the counts sum to 0.
generateCongestionBars(congestion) ==
    LET total == SumValues(congestion, DOMAIN congestion)
    IN [i \in DOMAIN congestionSegments |->
           LET count == OrElse(Get(congestion, congestionSegments[i].key), Num(0))
           IN [label |-> congestionSegments[i].label,
               count |-> count,
               percentage |-> IF total > 0 THEN toFixed1(count.num, total)
                              ELSE <<0, 0>>]]

\* populateTrafficAnalysis past the guard of line 825, lines 849-885.
trafficAnalysis(traffic) ==
    LET statistics == OrElse(Get(traffic, "statistics"), EmptyObject)
        congestion == OrElse(Get(traffic, "congestion_analysis"), EmptyObject)
        score == OrElse(Get(statistics, "overall_traffic_score"), Num(0))
    IN [class |-> getTrafficClass(score),
        score |-> score,
        label |-> OrElse(Get(statistics, "traffic_condition"), Str("Unknown")),
        total_segments_analyzed |->
            OrElse(Get(statistics, "total_segments_analyzed"), Num(0)),
        average_travel_time_index |->
            OrElse(Get(statistics, "average_travel_time_index"), Num(0)),
        average_current_speed |->
            OrElse(Get(statistics, "average_current_speed"), Num(0)),
        average_free_flow_speed |->
            OrElse(Get(statistics, "average_free_flow_speed"), Num(0)),
        heavy_traffic_segments |->
            OrElse(Get(congestion, "heavy_traffic_segments"), Num(0)),
        free_flow_segments |->
            OrElse(Get(congestion, "free_flow_segments"), Num(0)),
        bars |-> generateCongestionBars(congestion),
        recommendations |-> generateTrafficRecommendations(score, congestion)]

\* truncateText(text, maxLength), report.js:1524-1528.  A truthy text whose
\* length is at most maxLength is returned as it is, whatever its type (an
\* array, an object with a length property); text.substring is reached
\* when the comparison is false, and only a string has it.
\* text.substring(0, n) + '...' is written as the record of its parts.
truncateText(text, maxLength) ==
    IF ~Truthy(text) THEN Str("")
    ELSE IF Le(Length(text), maxLength) THEN text
    ELSE IF ~IsString(text) THEN TypeError
    ELSE [substring |-> text.str, length |-> maxLength, suffix |-> "..."]

\* The decimal numeral of a natural number.
RECURSIVE Decimal(_)
Decimal(n) ==
    LET digit == <<"0", "1", "2", "3", "4", "5", "6", "7", "8", "9">>[(n % 10) + 1]
    IN IF n < 10 THEN digit ELSE Decimal(n \div 10) \o digit

\* Array.prototype.join(','), which the conversion of an array to a string
\* applies: undefined and null elements give the empty string, a nested
\* array is joined in turn, an object gives '[object Object]'.
RECURSIVE join(_)
join(elements) ==
    LET text(v) ==
            IF v \in {Undefined, Null} THEN ""
            ELSE IF IsString(v) THEN v.str
            ELSE IF IsNumber(v)
            THEN IF v.num < 0 THEN "-" \o Decimal(0 - v.num) ELSE Decimal(v.num)
            ELSE IF v = NaN THEN "NaN"
            ELSE IF "bool" \in DOMAIN v
            THEN IF v.bool THEN "true" ELSE "false"
            ELSE IF "array" \in DOMAIN v THEN join(v.array)
            ELSE "[object Object]"
    IN IF elements = <<>> THEN ""
       ELSE IF Len(elements) = 1 THEN text(elements[1])
       ELSE text(elements[1]) \o "," \o join(Tail(elements))

\* ${value} in a template literal, for the values truncateText returns: an
\* array is written as its elements joined by commas and an object as
\* '[object Object]'; a string, which text.substring(0, n) + '...' also is,
\* is written as it is.
interpolate(value) ==
    IF "array" \in DOMAIN value THEN Str(join(value.array))
    ELSE IF IsString(value) \/ "substring" \in DOMAIN value \/ value = TypeError
    THEN value
    ELSE Str("[object Object]")

\* populateRouteDetails past the guard of line 85, lines 90-114: the cells of
\* the details grid except the analysis date, or the error raised.
routeDetails(overview) ==
    LET routeInfo == OrElse(Get(overview, "route_info"), EmptyObject)
        id == Get(routeInfo, "id")
        cells ==
            [id |-> IF ~Truthy(id) THEN Str("Unknown")
                    ELSE IF ~IsString(id) THEN TypeError
                    ELSE [substring |-> id.str, length |-> 12,
                          suffix |-> "..."],
             origin |->
                 interpolate(
                     truncateText(OrElse(Get(routeInfo, "from_address"),
                                         Str("Unknown Location")), 50)),
             destination |->
                 interpolate(
                     truncateText(OrElse(Get(routeInfo, "to_address"),
                                         Str("Unknown Location")), 50)),
             distance |-> OrElse(Get(routeInfo, "distance"), Str("Unknown")),
             duration |-> OrElse(Get(routeInfo, "duration"), Str("Unknown"))]
    IN IF \E cell \in DOMAIN cells : cells[cell] = TypeError
       THEN TypeError
       ELSE cells

\* populateSafetyCompliance past the guard of line 185, lines 190-221.
\* getComplianceClass is passed assessment.overall_score as it is.
safetyCompliance(compliance) ==
    LET assessment == OrElse(Get(compliance, "compliance_assessment"),
                             EmptyObject)
        vehicleInfo == OrElse(Get(compliance, "vehicle_info"), EmptyObject)
        issues == Get(assessment, "issues_identified")
    IN [class |-> getComplianceClass(Get(assessment, "overall_score")),
        level |-> OrElse(Get(assessment, "compliance_level"), Str("Unknown")),
        score |-> OrElse(Get(assessment, "overall_score"), Num(0)),
        vehicleType |-> OrElse(Get(vehicleInfo, "category"), Str("Unknown")),
        ais140 |-> IF Truthy(Get(vehicleInfo, "ais_140_required"))
                   THEN Str("YES (Mandatory)") ELSE Str("NO"),
        issues |-> IF Truthy(issues) /\ Gt(Length(issues), 0)
                   THEN issues ELSE Arr(<<>>)]

\* generateCriticalTurnCards, report.js:1125-1165: a card for each of the
\* first three extreme blind spots and the first two blind spots, or the
\* paragraph that stands for an empty list.
generateCriticalTurnCards(categorizedTurns) ==
    LET extremeTurns ==
            OrElse(Get(categorizedTurns, "extreme_blind_spots"), Arr(<<>>))
        blindSpots == OrElse(Get(categorizedTurns, "blind_spots"), Arr(<<>>))
        shown == slice(extremeTurns, 3).array \o slice(blindSpots, 2).array
    IN IF Len(shown) = 0
       THEN Str("No critical turns data available")
       ELSE Arr([index \in DOMAIN shown |->
                    [number |-> index,
                     angle |-> Get(shown[index], "angle"),
                     classification |-> Get(shown[index], "classification"),
                     recommended_speed |->
                         Get(shown[index], "recommended_speed"),
                     danger_level |-> Get(shown[index], "danger_level")]])

\* populateSharpTurnsSection past the guard of line 407, lines 412-488.
sharpTurns(turns) ==
    LET categorizedTurns ==
            OrElse(Get(turns, "categorized_turns"), EmptyObject)
    IN [total_turns |-> OrElse(Get(turns, "total_turns"), Num(0)),
        extreme |->
            Length(OrElse(Get(categorizedTurns, "extreme_blind_spots"),
                          Arr(<<>>))),
        high |->
            Length(OrElse(Get(categorizedTurns, "blind_spots"), Arr(<<>>))),
        moderate |->
            Length(OrElse(Get(categorizedTurns, "sharp_danger"), Arr(<<>>))),
        cards |-> generateCriticalTurnCards(categorizedTurns)]

\* The cards of generatePOICategories, in order.
poiCategories ==
    <<[key |-> "hospitals", name |-> "Medical Facilities"],
      [key |-> "police", name |-> "Law Enforcement"],
      [key |-> "fire_stations", name |-> "Fire & Rescue"],
      [key |-> "gas_stations", name |-> "Fuel Stations"],
      [key |-> "schools", name |-> "Educational Institutions"],
      [key |-> "restaurants", name |-> "Food & Rest"]>>

\* generatePOICategories, report.js:1167-1210: for each card its name and the
\* number of facilities found.
generatePOICategories(poisByType) ==
    [i \in DOMAIN poiCategories |->
        [name |-> poiCategories[i].name,
         count |-> Length(OrElse(Get(poisByType, poiCategories[i].key),
                                 Arr(<<>>)))]]

\* populatePointsOfInterest past the guard of line 495, lines 500-537.
pointsOfInterest(pois) ==
    LET poisByType == OrElse(Get(pois, "pois_by_type"), EmptyObject)
        statistics == OrElse(Get(pois, "statistics"), EmptyObject)
        score == OrElse(Get(statistics, "coverage_score"), Num(0))
    IN [class |-> getServiceClass(score),
        score |-> score,
        total_pois |-> OrElse(Get(statistics, "total_pois"), Num(0)),
        emergency_services |->
            OrElse(Get(statistics, "emergency_services"), Num(0)),
        essential_services |->
            OrElse(Get(statistics, "essential_services"), Num(0)),
        other_services |-> OrElse(Get(statistics, "other_services"), Num(0)),
        categories |-> generatePOICategories(poisByType)]

\* The bars of generateQualityBars, in order.
qualities ==
    <<[key |-> "excellent", label |-> "Excellent"],
      [key |-> "good", label |-> "Good"],
      [key |-> "fair", label |-> "Fair"],
      [key |-> "poor", label |-> "Poor"],
      [key |-> "dead", label |-> "Dead Zone"]>>

\* generateQualityBars(qualityDist, totalPoints), report.js:1213-1242: for
\* each bar its label, its count and its percentage of totalPoints.
generateQualityBars(qualityDist, totalPoints) ==
    [i \in DOMAIN qualities |->
        LET count == OrElse(Get(qualityDist, qualities[i].key), Num(0))
        IN [label |-> qualities[i].label,
            count |-> count,
            percentage |-> IF Gt(totalPoints, 0)
                           THEN toFixed1(count.num, totalPoints.num)
                           ELSE <<0, 0>>]]

\* populateNetworkCoverage past the guard of line 544, lines 549-594; the
\* bars divide by statistics.total_points_analyzed || 1.
networkCoverage(coverage) ==
    LET statistics == OrElse(Get(coverage, "statistics"), EmptyObject)
        qualityDist == OrElse(Get(coverage, "quality_distribution"),
                              EmptyObject)
        score == OrElse(Get(statistics, "overall_coverage_score"), Num(0))
        deadZones == OrElse(Get(statistics, "dead_zones_count"), Num(0))
    IN [class |-> getCoverageClass(score),
        score |-> score,
        total_points_analyzed |->
            OrElse(Get(statistics, "total_points_analyzed"), Num(0)),
        dead_zones_count |-> deadZones,
        poor_coverage_count |->
            OrElse(Get(statistics, "poor_coverage_count"), Num(0)),
        good_coverage_percentage |->
            OrElse(Get(statistics, "good_coverage_percentage"), Num(0)),
        bars |-> generateQualityBars(
                     qualityDist,
                     OrElse(Get(statistics, "total_points_analyzed"), Num(1))),
        deadZonesAlert |-> Gt(deadZones, 0)]

\* generateWeatherConditions(conditions, totalPoints), report.js:1244-1265:
\* for each entry of conditions the icon of its name, its count and its
\* percentage of totalPoints.
generateWeatherConditions(conditions, totalPoints) ==
    [condition \in DOMAIN conditions |->
        [icon |-> getWeatherIcon(Str(condition)),
         count |-> conditions[condition],
         percentage |-> IF Gt(totalPoints, 0)
                        THEN toFixed1(conditions[condition].num,
                                      totalPoints.num)
                        ELSE <<0, 0>>]]

\* populateWeatherAnalysis past the guard of line 601, lines 606-651: the
\* three values of the summary, the condition cards, the risks and the
\* preparation list.  The summary shows statistics.average_temperature || 0
\* and the preparation list is computed for
\* statistics.average_temperature || 25.
weatherAnalysis(weather) ==
    LET statistics == OrElse(Get(weather, "statistics"), EmptyObject)
        conditions == OrElse(Get(weather, "conditions_summary"), EmptyObject)
    IN [temperature |->
            OrElse(Get(statistics, "average_temperature"), Num(0)),
        humidity |-> OrElse(Get(statistics, "average_humidity"), Num(0)),
        windSpeed |-> OrElse(Get(statistics, "average_wind_speed"), Num(0)),
        conditions |->
            generateWeatherConditions(
                conditions,
                OrElse(Get(statistics, "points_analyzed"), Num(1))),
        risks |-> OrElse(Get(weather, "weather_risks"), Arr(<<>>)),
        preparation |-> weatherPreparation(weather)]

\* populateEmergencyPlanning past the guard of line 659, lines 664-754; the
\* assessment is emergency.preparedness_assessment || emergency.
emergencyPlanning(emergency) ==
    LET assessment ==
            OrElse(Get(emergency, "preparedness_assessment"), emergency)
        services == OrElse(Get(emergency, "emergency_services"), EmptyObject)
        score == OrElse(Get(assessment, "emergency_score"), Num(0))
    IN [class |-> getEmergencyClass(score),
        score |-> score,
        level |-> OrElse(Get(assessment, "preparedness_level"),
                         Str("Unknown")),
        hospitals |->
            Length(OrElse(Get(services, "hospitals"), Arr(<<>>))),
        police_stations |->
            Length(OrElse(Get(services, "police_stations"), Arr(<<>>))),
        fire_stations |->
            Length(OrElse(Get(services, "fire_stations"), Arr(<<>>)))]

\* populateElevationTerrain past the guard of line 893, lines 923-1000, or
\* the error getTerrainClass raised; getTerrainClass and
\* generateTerrainChallenges are passed terrain_type and driving_difficulty
\* as they are.  Of the significant changes the first ten are listed.
elevationTerrain(elevation) ==
    LET statistics == OrElse(Get(elevation, "statistics"), EmptyObject)
        terrainAnalysis ==
            OrElse(Get(elevation, "terrain_analysis"), EmptyObject)
        significantChanges ==
            OrElse(Get(elevation, "significant_changes"), Arr(<<>>))
        elevationRange == OrElse(Get(statistics, "elevation_range"), Num(0))
    IN IF getTerrainClass(Get(terrainAnalysis, "terrain_type")) = TypeError
       THEN TypeError
       ELSE [class |-> getTerrainClass(Get(terrainAnalysis, "terrain_type")),
             terrain_type |->
                 OrElse(Get(terrainAnalysis, "terrain_type"), Str("Unknown")),
             driving_difficulty |->
                 OrElse(Get(terrainAnalysis, "driving_difficulty"),
                        Str("Unknown")),
             min_elevation |->
                 OrElse(Get(statistics, "min_elevation"), Num(0)),
             max_elevation |->
                 OrElse(Get(statistics, "max_elevation"), Num(0)),
             average_elevation |->
                 OrElse(Get(statistics, "average_elevation"), Num(0)),
             elevation_range |-> elevationRange,
             significantChanges |-> slice(significantChanges, 10),
             fuel_impact |->
                 OrElse(Get(terrainAnalysis, "fuel_impact"),
                        Str("Standard consumption expected")),
             challenges |->
                 generateTerrainChallenges(
                     Get(terrainAnalysis, "driving_difficulty"),
                     elevationRange),
             preparation |-> generateElevationPreparation(elevationRange)]

---------------------------------------------------------------------------
(* Calls of the helpers on inputs drawn from bounded sets *)

\* Scores and counts range over -BelowZero .. MaxScore.
BelowZero == 5
MaxScore == 105

Scores == (0 - BelowZero)..MaxScore

\* The values a classifier is called with: a missing value, a number, a string.
Values ==
    {Undefined, Null} \cup {Num(n) : n \in Scores} \cup {Str(s) : s \in Strings}

\* The condition names of a weather payload's conditions object, and the
\* number of names in one object.
ConditionNames ==
    {"rain", "Rain", "RAIN", "Heavy Rain", "Thunderstorm", "thunderstorm",
     "Storm", "storm", "Clear", "clouds"}
MaxConditions == 2

Temperatures == {5, 9, 10, 11, 25, 35, 36, 40}

\* The arguments of generateWeatherPreparation(avgTemp, conditions).
WeatherArguments ==
    {[avgTemp |-> Num(t), conditions |-> [c \in names |-> Num(1)]] :
        t \in Temperatures,
        names \in {S \in SUBSET ConditionNames : Cardinality(S) <= MaxConditions}}

\* The arguments of generateTrafficRecommendations(trafficScore, congestion):
\* a congestion object has any of the segment counts.
TrafficScores == {0, 49, 50, 80}

Congestions ==
    UNION {[K -> {Num(0), Num(1), Num(3)}] :
              K \in SUBSET {"heavy_traffic_segments",
                            "moderate_traffic_segments",
                            "free_flow_segments"}}

TrafficArguments ==
    {[trafficScore |-> Num(s), congestion |-> c] :
        s \in TrafficScores, c \in Congestions}

\* The arguments of generateTerrainChallenges(difficulty, elevationRange) and
\* of generateElevationPreparation(elevationRange).
ElevationRanges == {0, 500, 501, 1000, 1001, 1500}

TerrainArguments ==
    {[difficulty |-> d, elevationRange |-> Num(r)] :
        d \in {Undefined, Str("LOW"), Str("MEDIUM"), Str("HIGH"), Str("high")},
        r \in ElevationRanges}

ElevationArguments == {[elevationRange |-> Num(r)] : r \in ElevationRanges}

\* The angles of a turn, in degrees.
MaxAngle == 100

TurnArguments == {[angle |-> Num(a)] : a \in 55..MaxAngle}

\* A category payload that carries an error marker.
ErrorPayload == [error |-> Str("Failed to load")]

\* Weather payloads: empty, without statistics fields, with every field of
\* the summary, and with an average temperature and a conditions summary.
WeatherPayloads ==
    {EmptyObject, [statistics |-> EmptyObject],
     [statistics |-> [average_temperature |-> Num(31),
                      average_humidity |-> Num(64),
                      average_wind_speed |-> Num(12),
                      points_analyzed |-> Num(80)],
      conditions_summary |-> [Clouds |-> Num(51), Rain |-> Num(29)],
      weather_risks |-> Arr(<<Str("Heavy rain expected")>>)]}
    \cup {[statistics |-> [average_temperature |-> Num(t)],
           conditions_summary |-> [c \in names |-> Num(1)]] :
             t \in {0 - 3, 0, 5, 9, 10, 25, 36},
             names \in SUBSET {"Rain", "Clear"}}

\* Overview payloads: empty, partly filled, with null fields, with addresses
\* that are not strings, and filled.
OverviewPayloads ==
    {EmptyObject, ErrorPayload, [statistics |-> EmptyObject],
     [route_info |-> EmptyObject], Payload("overview"), NumericRiskOverview,
     [route_info |-> [id |-> Null],
      statistics |-> [safety_score |-> Null, risk_level |-> Null,
                      critical_turns |-> Null]],
     [statistics |-> [risk_level |-> Num(3)]],
     [route_info |-> [from_address |-> Arr(<<Str("Depot"), Str("Gate 2")>>),
                      to_address |-> [length |-> Num(3)]]],
     [route_info |-> [from_address |-> Num(14)]],
     [route_info |-> [id |-> Str("64f1c0a2b7e49d0012ab34cd"),
                      from_address |->
                          Str("Plot 14, Industrial Development Area, Phase II, Visakhapatnam")],
      statistics |-> [risk_level |-> Str("MEDIUM")]],
     [route_info |-> [from_address |-> Str("Depot"),
                      to_address |-> Str("Terminal"),
                      distance |-> Str("120 km"),
                      duration |-> Str("2 hours")],
      statistics |-> [total_points |-> Num(40),
                      total_sharp_turns |-> Num(6),
                      critical_turns |-> Num(3),
                      total_pois |-> Num(9),
                      safety_score |-> Num(62),
                      risk_level |-> Str("HIGH")]]}

\* reportData.turns and reportData.network as populateRiskZones reads them.
RiskZoneArguments ==
    [turns : {EmptyObject, ErrorPayload,
              [categorized_turns |-> EmptyObject],
              [categorized_turns |->
                   [extreme_blind_spots |-> Arr(<<[angle |-> Num(95)]>>),
                    blind_spots |->
                        Arr(<<[angle |-> Num(72)], [angle |-> Num(78)]>>)]]},
     network : {EmptyObject, ErrorPayload,
                [problem_areas |-> EmptyObject],
                [problem_areas |->
                     [dead_zones |-> Arr(<<[latitude |-> Num(17)]>>)]]}]

\* The congestion_analysis objects of the traffic payloads: without counts,
\* with one count, with every count, and with 23 heavy segments of 80.
PayloadCongestions ==
    {EmptyObject,
     [heavy_traffic_segments |-> Num(3)],
     [heavy_traffic_segments |-> Num(23), free_flow_segments |-> Num(57)],
     [heavy_traffic_segments |-> Num(1), moderate_traffic_segments |-> Num(3),
      free_flow_segments |-> Num(0)]}

\* Traffic payloads: empty, partly filled, and filled.
TrafficPayloads ==
    {EmptyObject, ErrorPayload, [statistics |-> EmptyObject],
     [statistics |-> [overall_traffic_score |-> Null]], Payload("traffic")}
    \cup {[statistics |-> [overall_traffic_score |-> Num(s),
                           traffic_condition |-> Str("MODERATE"),
                           total_segments_analyzed |-> Num(4)],
           congestion_analysis |-> c] :
             s \in TrafficScores, c \in PayloadCongestions}

\* Payloads of the other categories: empty, with an error marker, with a
\* null field, as Payload has them, and filled.
CompliancePayloads ==
    {EmptyObject, ErrorPayload,
     [compliance_assessment |-> [overall_score |-> Null]],
     Payload("compliance"),
     [compliance_assessment |->
          [overall_score |-> Num(92),
           compliance_level |-> Str("COMPLIANT"),
           issues_identified |-> Arr(<<Str("Speed governor certificate due")>>)],
      vehicle_info |-> [category |-> Str("Heavy Goods Vehicle"),
                        ais_140_required |-> Bool(TRUE)]]}

PoisPayloads ==
    {EmptyObject, ErrorPayload,
     [statistics |-> [coverage_score |-> Null]],
     [pois_by_type |->
          [hospitals |-> Arr(<<[name |-> Str("District Hospital")]>>),
           gas_stations |->
               Arr(<<[name |-> Str("Fuel Point 1")],
                     [name |-> Str("Fuel Point 2")]>>)],
      statistics |-> [coverage_score |-> Num(75), total_pois |-> Num(3),
                      emergency_services |-> Num(1),
                      essential_services |-> Num(2)]]}

NetworkPayloads ==
    {[statistics |-> [overall_coverage_score |-> Null]],
     [statistics |-> [overall_coverage_score |-> Num(90),
                      total_points_analyzed |-> Num(80),
                      dead_zones_count |-> Num(2),
                      good_coverage_percentage |-> Num(71)],
      quality_distribution |->
          [excellent |-> Num(23), good |-> Num(34), dead |-> Num(2)]],
     [quality_distribution |-> [good |-> Num(3)]]}

EmergencyPayloads ==
    {EmptyObject, ErrorPayload, [emergency_score |-> Null],
     Payload("emergency"),
     [preparedness_assessment |->
          [emergency_score |-> Num(82), preparedness_level |-> Str("GOOD")],
      emergency_services |->
          [hospitals |-> Arr(<<[name |-> Str("District Hospital")]>>)]]}

ElevationPayloads ==
    {EmptyObject, ErrorPayload,
     [terrain_analysis |-> [terrain_type |-> Null]],
     Payload("elevation"),
     [statistics |-> [min_elevation |-> Num(120), max_elevation |-> Num(1340),
                      average_elevation |-> Num(640),
                      elevation_range |-> Num(1220)],
      terrain_analysis |-> [terrain_type |-> Str("MOUNTAINOUS"),
                            driving_difficulty |-> Str("HIGH")],
      significant_changes |-> Arr(<<[type |-> Str("ascent")]>>)]}

Classifiers ==
    {"getStatusClass", "getScoreLabel", "getRiskClass", "getRiskDescription",
     "getTurnsClass", "getTurnsLabel", "getComplianceClass", "getServiceClass",
     "getCoverageClass", "getTrafficClass", "getTerrainClass",
     "getEmergencyClass", "getWeatherIcon"}

\* classifier(value)
Classify(classifier, value) ==
    CASE classifier = "getStatusClass" -> getStatusClass(value)
      [] classifier = "getScoreLabel" -> getScoreLabel(value)
      [] classifier = "getRiskClass" -> getRiskClass(value)
      [] classifier = "getRiskDescription" -> getRiskDescription(value)
      [] classifier = "getTurnsClass" -> getTurnsClass(value)
      [] classifier = "getTurnsLabel" -> getTurnsLabel(value)
      [] classifier = "getComplianceClass" -> getComplianceClass(value)
      [] classifier = "getServiceClass" -> getServiceClass(value)
      [] classifier = "getCoverageClass" -> getCoverageClass(value)
      [] classifier = "getTrafficClass" -> getTrafficClass(value)
      [] classifier = "getTerrainClass" -> getTerrainClass(value)
      [] classifier = "getEmergencyClass" -> getEmergencyClass(value)
      [] classifier = "getWeatherIcon" -> getWeatherIcon(value)

---------------------------------------------------------------------------
(* The report page's containers (templates/route_report.html) *)

Containers ==
    {"routeDetailsCard", "routeInfoCard", "statisticsCard", "statusIndicators",
     "complianceGrid", "riskZonesContainer", "seasonalContainer",
     "environmentalContainer", "turnsContainer", "poiContainer",
     "networkContainer", "weatherContainer", "emergencyContainer",
     "mapContainer", "trafficContainer", "elevationContainer"}

\* innerHTML is abstracted to the class of its root element and its text.
Html(class, text) == [class |-> class, text |-> text]

LoadingPlaceholder == Html("loading-placeholder", "Loading...")
ServerRendered == Html("details-grid", "Route Analysis Details")

\* The page as served: routeDetailsCard is filled by the template, every
\* other container holds a loading placeholder.
InitialDom ==
    [c \in Containers |->
        IF c = "routeDetailsCard" THEN ServerRendered ELSE LoadingPlaceholder]

\* '<p class="error">...</p>'
ErrorParagraph(text) == Html("error", text)

\* Markup built from a category's payload.
Rendered(section) == Html("content", section)

\* !x || x.error
NotAvailable(x) == ~Truthy(x) \/ Truthy(Get(x, "error"))

\* What a section renderer leaves behind: the DOM, and whether it raised.
Returned(d) == [dom |-> d, threw |-> FALSE]
Raised(d) == [dom |-> d, threw |-> TRUE]

---------------------------------------------------------------------------
(* Section renderers, report.js:81-1002.  Each takes reportData and the    *)
(* DOM and returns the DOM it leaves and whether it raised.                *)

\* Variant of populateRouteDetails: no availability guard, so reading
\* overview.route_info.id of an entry without route_info raises.
populateRouteDetailsUnguarded(rd, d) ==
    LET overview == Get(rd, "overview") IN
    IF Get(overview, "route_info") = Undefined
    THEN Raised(d)
    ELSE Returned([d EXCEPT !["routeDetailsCard"] = Rendered("route-details")])

\* The template is evaluated before it is assigned, so a cell that raises
\* leaves the container as it was.
populateRouteDetails(rd, d) ==
    LET overview == Get(rd, "overview") IN
    IF NotAvailable(overview)
    THEN Returned([d EXCEPT !["routeDetailsCard"] =
                       ErrorParagraph("Route details not available")])
    ELSE IF routeDetails(overview) = TypeError
    THEN Raised(d)
    ELSE Returned([d EXCEPT !["routeDetailsCard"] = Rendered("route-details")])

\* The error branch writes routeInfoCard only.  Otherwise routeInfoCard and
\* statisticsCard are assigned before the statusIndicators template, which
\* calls getRiskClass(riskLevel), is evaluated.
populateOverviewSection(rd, d) ==
    LET overview == Get(rd, "overview") IN
    IF NotAvailable(overview)
    THEN Returned([d EXCEPT !["routeInfoCard"] =
                       ErrorParagraph("Overview data not available")])
    ELSE LET statistics == OrElse(Get(overview, "statistics"), EmptyObject)
             riskLevel == OrElse(Get(statistics, "risk_level"), Str("Unknown"))
             cards == [d EXCEPT !["routeInfoCard"] = Rendered("route-info"),
                                !["statisticsCard"] = Rendered("statistics")]
         IN IF getRiskClass(riskLevel) = TypeError
            THEN Raised(cards)
            ELSE Returned([cards EXCEPT !["statusIndicators"] =
                              Rendered("status-indicators")])

populateSafetyCompliance(rd, d) ==
    LET compliance == Get(rd, "compliance") IN
    IF NotAvailable(compliance)
    THEN Returned([d EXCEPT !["complianceGrid"] =
                       ErrorParagraph("Compliance data not available")])
    ELSE Returned([d EXCEPT !["complianceGrid"] = Rendered("compliance")])

\* Reads turns and network, but only turns decides availability:
\* network?.problem_areas?.dead_zones || [] is empty for an error marker.
populateRiskZones(rd, d) ==
    LET turns == Get(rd, "turns") IN
    IF NotAvailable(turns)
    THEN Returned([d EXCEPT !["riskZonesContainer"] =
                       ErrorParagraph("Risk zones data not available")])
    ELSE Returned([d EXCEPT !["riskZonesContainer"] = Rendered("risk-zones")])

\* Reads reportData.turns and reportData.overview without using them.
populateSeasonalConditions(rd, d) ==
    Returned([d EXCEPT !["seasonalContainer"] = Rendered("seasonal")])

populateEnvironmentalSection(rd, d) ==
    Returned([d EXCEPT !["environmentalContainer"] = Rendered("environmental")])

populateSharpTurnsSection(rd, d) ==
    LET turns == Get(rd, "turns") IN
    IF NotAvailable(turns)
    THEN Returned([d EXCEPT !["turnsContainer"] =
                       ErrorParagraph("Sharp turns data not available")])
    ELSE Returned([d EXCEPT !["turnsContainer"] = Rendered("sharp-turns")])

populatePointsOfInterest(rd, d) ==
    LET pois == Get(rd, "pois") IN
    IF NotAvailable(pois)
    THEN Returned([d EXCEPT !["poiContainer"] =
                       ErrorParagraph("Points of Interest data not available")])
    ELSE Returned([d EXCEPT !["poiContainer"] = Rendered("points-of-interest")])

populateNetworkCoverage(rd, d) ==
    LET coverage == Get(rd, "network") IN
    IF NotAvailable(coverage)
    THEN Returned([d EXCEPT !["networkContainer"] =
                       ErrorParagraph("Network coverage data not available")])
    ELSE Returned([d EXCEPT !["networkContainer"] = Rendered("network-coverage")])

populateWeatherAnalysis(rd, d) ==
    LET weather == Get(rd, "weather") IN
    IF NotAvailable(weather)
    THEN Returned([d EXCEPT !["weatherContainer"] =
                       ErrorParagraph("Weather analysis data not available")])
    ELSE Returned([d EXCEPT !["weatherContainer"] = Rendered("weather-analysis")])

populateEmergencyPlanning(rd, d) ==
    LET emergency == Get(rd, "emergency") IN
    IF NotAvailable(emergency)
    THEN Returned([d EXCEPT !["emergencyContainer"] =
                       ErrorParagraph("Emergency planning data not available")])
    ELSE Returned([d EXCEPT !["emergencyContainer"] =
                       Rendered("emergency-planning")])

populateRouteMap(rd, d) ==
    Returned([d EXCEPT !["mapContainer"] = Rendered("route-map")])

populateTrafficAnalysis(rd, d) ==
    LET traffic == Get(rd, "traffic") IN
    IF NotAvailable(traffic)
    THEN Returned([d EXCEPT !["trafficContainer"] =
                       Html("traffic-unavailable",
                            "Traffic analysis data is not available for this route.")])
    ELSE Returned([d EXCEPT !["trafficContainer"] = Rendered("traffic-analysis")])

\* The unavailable block shows elevation?.error, or a fixed text without it.
populateElevationTerrain(rd, d) ==
    LET elevation == Get(rd, "elevation") IN
    IF NotAvailable(elevation)
    THEN Returned([d EXCEPT !["elevationContainer"] =
                       Html("elevation-unavailable",
                            OrElse(Get(elevation, "error"),
                                   Str("Elevation analysis data not available")).str)])
    ELSE IF elevationTerrain(elevation) = TypeError
    THEN Raised(d)
    ELSE Returned([d EXCEPT !["elevationContainer"] =
                       Rendered("elevation-terrain")])

\* The calls of initializeReport's try block, report.js:17-30, in order.
sections ==
    <<"populateRouteDetails", "populateOverviewSection",
      "populateSafetyCompliance", "populateRiskZones",
      "populateSeasonalConditions", "populateEnvironmentalSection",
      "populateSharpTurnsSection", "populatePointsOfInterest",
      "populateNetworkCoverage", "populateWeatherAnalysis",
      "populateEmergencyPlanning", "populateRouteMap",
      "populateTrafficAnalysis", "populateElevationTerrain">>

Populate(section, rd, d) ==
    CASE section = "populateRouteDetails" -> populateRouteDetails(rd, d)
      [] section = "populateOverviewSection" -> populateOverviewSection(rd, d)
      [] section = "populateSafetyCompliance" -> populateSafetyCompliance(rd, d)
      [] section = "populateRiskZones" -> populateRiskZones(rd, d)
      [] section = "populateSeasonalConditions" ->
            populateSeasonalConditions(rd, d)
      [] section = "populateEnvironmentalSection" ->
            populateEnvironmentalSection(rd, d)
      [] section = "populateSharpTurnsSection" ->
            populateSharpTurnsSection(rd, d)
      [] section = "populatePointsOfInterest" -> populatePointsOfInterest(rd, d)
      [] section = "populateNetworkCoverage" -> populateNetworkCoverage(rd, d)
      [] section = "populateWeatherAnalysis" -> populateWeatherAnalysis(rd, d)
      [] section = "populateEmergencyPlanning" ->
            populateEmergencyPlanning(rd, d)
      [] section = "populateRouteMap" -> populateRouteMap(rd, d)
      [] section = "populateTrafficAnalysis" -> populateTrafficAnalysis(rd, d)
      [] section = "populateElevationTerrain" -> populateElevationTerrain(rd, d)

\* A call of a section renderer, and whether it raised.
Call(section, raised) == [section |-> section, raised |-> raised]

\* The try block from section k on: the calls run in order and the first one
\* that raises ends the block (control passes to the catch clause).
RECURSIVE populateFrom(_, _, _, _)
populateFrom(k, rd, d, called) ==
    IF k > Len(sections)
    THEN [dom |-> d, ran |-> called, threw |-> FALSE]
    ELSE LET r == Populate(sections[k], rd, d) IN
         IF r.threw
         THEN [dom |-> r.dom, ran |-> Append(called, Call(sections[k], TRUE)),
               threw |-> TRUE]
         ELSE populateFrom(k + 1, rd, r.dom,
                           Append(called, Call(sections[k], FALSE)))

---------------------------------------------------------------------------
(* The sidebar and the navigation bar, report.js:1005-1055, 1546-1559 *)

\* The ids of the .report-section elements, in document order.
reportSections ==
    <<"overview", "safety-compliance", "risk-zones", "seasonal-conditions",
      "environmental", "sharp-turns", "points-of-interest",
      "network-coverage", "weather-analysis", "emergency-planning",
      "route-map", "traffic-analysis", "elevation-terrain">>

\* `#${id}`
Href(id) == <<"#", id>>

\* The '.sidebar-menu a' elements, each identified by its href.
sidebarLinks ==
    {Href("overview"), Href("safety-compliance"), Href("risk-zones"),
     Href("seasonal-conditions"), Href("environmental"), Href("sharp-turns"),
     Href("points-of-interest"), Href("network-coverage"),
     Href("weather-analysis"), Href("emergency-planning"), Href("route-map"),
     Href("traffic-analysis"), Href("elevation-terrain")}

\* The template serves the first link with class="active".
InitialActiveLinks == {Href("overview")}

NoEvent == [type |-> "none"]

\* Variant of updateActiveNavLink: 'active' is added to the matching link
\* and not removed from the others.
updateActiveNavLinkNoRemove(active, spanning) ==
    LET matching == {i \in DOMAIN reportSections : reportSections[i] \in spanning}
        currentSection ==
            IF matching = {} THEN ""
            ELSE LET last == CHOOSE i \in matching : \A j \in matching : j <= i
                 IN reportSections[last]
    IN active \cup {link \in sidebarLinks : link = Href(currentSection)}

\* updateActiveNavLink, given the links that are active and the sections
\* whose rectangle has top <= 100 and bottom >= 100: currentSection is the
\* last of these in document order, '' when there is none; 'active' is
\* removed from every link and added to the link whose href is
\* '#' + currentSection.
updateActiveNavLink(active, spanning) ==
    LET matching == {i \in DOMAIN reportSections : reportSections[i] \in spanning}
        currentSection ==
            IF matching = {} THEN ""
            ELSE LET last == CHOOSE i \in matching : \A j \in matching : j <= i
                 IN reportSections[last]
    IN (active \ sidebarLinks)
       \cup {link \in sidebarLinks : link = Href(currentSection)}

\* The widths of the window, and the numbers of sections whose rectangle can
\* span the 100px line at once and of menu buttons the model counts.
Widths == {600, 768, 769, 1024}
MaxSpanning == 2
MaxButtons == 3

\* addMobileMenuButton: the number of menu buttons in the navigation bar
\* after the call, given the window's width and the number before.
addMobileMenuButton(width, buttons) ==
    IF width <= 768 THEN buttons + 1 ELSE buttons

\* The locals of a call of initializeReport that has not been made.
NotCalled ==
    [pc |-> "idle", requests |-> <<>>, network |-> <<>>, promises |-> <<>>]

\* showSectionLoading(containerId), report.js:1627-1637: the DOM it leaves.
showSectionLoading(containerId, d) ==
    IF containerId \in DOMAIN d
    THEN [d EXCEPT ![containerId] = Html("section-loading", "Loading data...")]
    ELSE d

\* handleApiError(endpoint, error), report.js:1609-1624: the arguments of its
\* console.error and the element it returns, which it does not attach.
handleApiError(endpoint, error) ==
    [logged |-> << <<"API Error for ", endpoint, ":">>, error >>,
     returned |-> Html("api-error",
                       <<"Failed to load ", endpoint,
                         " data. Please refresh the page or contact support.">>)]

\* The arguments of the calls of showSectionLoading and handleApiError, and
\* those of a call without arguments.
SectionLoadingArguments ==
    {[containerId |-> c] : c \in Containers \cup {"missingContainer"}}

ApiErrorArguments ==
    {[endpoint |-> e, error |-> x] :
        e \in {"overview", "weather"}, x \in {NetworkError, DecodeError}}

NoArguments == [arguments |-> <<>>]

---------------------------------------------------------------------------
(* State machine *)

\* What the route-data service has done with a request so far.
Waiting == [stage |-> "pending", body |-> Undefined]

\* The number of responses whose body the page waits for at the same time,
\* and the number of clicks on the Download PDF button.
MaxAwaitingBody == 1
MaxDownloads == 1

\* The requests that have been answered and whose body is being read.
AwaitingBody(net) == {i \in DOMAIN net : net[i].stage = "responded"}

\* The requests whose chain has not settled.
Unsettled(net) == {i \in DOMAIN net : net[i].stage \in {"pending", "responded"}}

Init ==
    /\ currentRouteId = Null
    /\ reportData = EmptyObject
    /\ overlay = "flex"
    /\ alerts = <<>>
    /\ console = <<>>
    /\ requests = <<>>
    /\ network = <<>>
    /\ promises = <<>>
    /\ pc = "idle"
    /\ dom = InitialDom
    /\ ran = <<>>
    /\ navigation = FALSE
    /\ applied = "none"
    /\ input = Undefined
    /\ result = Undefined
    /\ activeLinks = InitialActiveLinks
    /\ event = NoEvent
    /\ menuButtons = 0
    /\ innerWidth = 1024
    /\ narrowest = 1024
    /\ opened = <<>>
    /\ readyState = "loading"
    /\ second = NotCalled

\* showError(message), report.js:76-78: the text passed to alert.
showError(message) == <<"Error: ", message>>

\* alert(text) opens a modal dialog and returns when it is closed; shown is
\* the display of #loadingOverlay at the call, which the page keeps while
\* the dialog is open.
Alert(text, shown) == [text |-> text, overlay |-> shown]

\* initializeReport(routeId) up to its await, report.js:8-14, and within it
\* loadReportData(routeId) up to its await, report.js:45-65: the map issues
\* every fetch and builds every chain before control returns to the event loop.
InitializeReport(routeId) ==
    /\ pc = "idle"
    /\ currentRouteId' = Str(routeId)
    /\ overlay' = "flex"
    /\ requests' = fetchAll(routeId)
    /\ network' = [i \in DOMAIN requests' |-> Waiting]
    /\ promises' = [i \in DOMAIN requests' |-> Pending]
    /\ pc' = "awaiting"
    /\ UNCHANGED <<reportData, alerts, console, dom, ran, navigation>>

\* The DOMContentLoaded event, which the document fires once, for the page
\* rendered with route_id = routeId.  Its listeners run in the order of
\* their registration: addMobileMenuButton (report.js:1559); the listeners
\* of report.js:1562 and 1606, which register the smooth-scroll click
\* handlers and append the print style sheet and write nothing the model
\* holds; and the listener of the template's inline script,
\* route_report.html:287-296: initializeReport(routeId) when routeId is not
\* empty, showError otherwise.
DomContentLoaded(routeId) ==
    /\ readyState = "loading"
    /\ readyState' = "interactive"
    /\ menuButtons' = addMobileMenuButton(innerWidth, menuButtons)
    /\ event' = [type |-> "DOMContentLoaded"]
    /\ IF Truthy(Str(routeId))
       THEN InitializeReport(routeId)
       ELSE /\ alerts' = Append(alerts,
                                Alert(showError("No route ID provided"), overlay))
            /\ UNCHANGED <<currentRouteId, reportData, overlay, console,
                           requests, network, promises, pc, dom, ran,
                           navigation>>
    /\ UNCHANGED callVars
    /\ UNCHANGED <<activeLinks, innerWidth, narrowest, opened, second>>

\* One chain fetch(...).then(response => response.json()).then(wrap)
\* .catch(mark) has two waits, for the response and for its body, and returns
\* to the event loop between them.

\* fetch rejects (network failure): the chain's catch handler runs.
FetchRejected(i) ==
    /\ i \in DOMAIN network
    /\ network[i].stage = "pending"
    /\ network' = [network EXCEPT ![i].stage = "failed"]
    /\ promises' = [promises EXCEPT ![i] = catchHandler(endpoints[i], NetworkError)]
    /\ UNCHANGED <<currentRouteId, reportData, overlay, alerts, console,
                   requests, pc, dom, ran, navigation>>
    /\ UNCHANGED callVars
    /\ UNCHANGED <<uiVars, second>>

\* fetch resolves with the response: the first handler calls response.json()
\* and the chain stays pending while the body is read.
FetchFulfilled(i) ==
    /\ i \in DOMAIN network
    /\ network[i].stage = "pending"
    /\ Cardinality(AwaitingBody(network)) + Cardinality(AwaitingBody(second.network))
          < MaxAwaitingBody
    /\ network' = [network EXCEPT ![i].stage = "responded"]
    /\ UNCHANGED <<currentRouteId, reportData, overlay, alerts, console,
                   requests, promises, pc, dom, ran, navigation>>
    /\ UNCHANGED callVars
    /\ UNCHANGED <<uiVars, second>>

\* response.json() resolves with the decoded body: the wrapping handler runs.
JsonFulfilled(i, data) ==
    /\ i \in DOMAIN network
    /\ network[i].stage = "responded"
    /\ network' = [network EXCEPT ![i] = [stage |-> "decoded", body |-> data]]
    /\ promises' = [promises EXCEPT ![i] = thenWrap(endpoints[i], data)]
    /\ UNCHANGED <<currentRouteId, reportData, overlay, alerts, console,
                   requests, pc, dom, ran, navigation>>
    /\ UNCHANGED callVars
    /\ UNCHANGED <<uiVars, second>>

\* response.json() rejects (the body is not JSON): the catch handler runs.
JsonRejected(i) ==
    /\ i \in DOMAIN network
    /\ network[i].stage = "responded"
    /\ network' = [network EXCEPT ![i].stage = "undecodable"]
    /\ promises' = [promises EXCEPT ![i] = catchHandler(endpoints[i], DecodeError)]
    /\ UNCHANGED <<currentRouteId, reportData, overlay, alerts, console,
                   requests, pc, dom, ran, navigation>>
    /\ UNCHANGED callVars
    /\ UNCHANGED <<uiVars, second>>

\* loadReportData after await Promise.all(promises), report.js:65-67: merge
\* the results into reportData and return, or fail with Promise.all's reason.
LoadReportDataResume ==
    /\ pc = "awaiting"
    /\ LET all == PromiseAll(promises) IN
       /\ all.state # "pending"
       /\ IF all.state = "fulfilled"
          THEN /\ reportData' = ObjectAssign(all.value)
               /\ pc' = "loaded"
          ELSE /\ pc' = "rejected"
               /\ UNCHANGED reportData
    /\ UNCHANGED <<currentRouteId, overlay, alerts, console, requests,
                   network, promises, dom, ran, navigation>>
    /\ UNCHANGED callVars
    /\ UNCHANGED <<uiVars, second>>

\* Variant of Caught: the catch clause does not call showLoading(false).
CaughtOverlayLeft(error) ==
    /\ console' = Append(console, <<"Error initializing report:", error>>)
    /\ alerts' = Append(alerts,
                        Alert(showError("Failed to load report data"), overlay))
    /\ UNCHANGED overlay
    /\ UNCHANGED navigation

\* The catch clause of initializeReport, report.js:37-41: console.error,
\* showError, whose dialog opens over the overlay as the build left it, then
\* showLoading(false).
Caught(error) ==
    /\ console' = Append(console, <<"Error initializing report:", error>>)
    /\ alerts' = Append(alerts,
                        Alert(showError("Failed to load report data"), overlay))
    /\ overlay' = "none"
    /\ UNCHANGED navigation

\* initializeReport after await loadReportData(routeId), report.js:14-42: the
\* section renderers in order, setupSidebarNavigation, showLoading(false); the
\* catch clause when loadReportData failed or a renderer raised.
InitializeReportResume ==
    /\ pc \in {"loaded", "rejected"}
    /\ IF pc = "rejected"
       THEN /\ Caught(PromiseAll(promises).value)
            /\ UNCHANGED <<dom, ran>>
       ELSE LET r == populateFrom(1, reportData, dom, ran) IN
            /\ dom' = r.dom
            /\ ran' = r.ran
            /\ IF r.threw
               THEN Caught(TypeError)
               ELSE /\ navigation' = TRUE
                    /\ overlay' = "none"
                    /\ UNCHANGED <<alerts, console>>
    /\ pc' = "done"
    /\ UNCHANGED <<currentRouteId, reportData, requests, network, promises>>
    /\ UNCHANGED callVars
    /\ UNCHANGED <<uiVars, second>>

\* downloadPDF(), report.js:1531-1537.
downloadPDF ==
    IF Truthy(currentRouteId)
    THEN /\ opened' = Append(opened, <<"/api/pdf/", currentRouteId.str,
                                       "?pages=all">>)
         /\ UNCHANGED alerts
    ELSE /\ alerts' = Append(alerts,
                             Alert(<<"No route selected for PDF download">>,
                                   overlay))
         /\ UNCHANGED opened

\* A click on the Download PDF button, route_report.html:32.  The loading
\* overlay covers the page while it is displayed (report.css:468-479), so the
\* button takes a click only when the overlay is hidden.
ClickDownloadPDF ==
    /\ overlay = "none"
    /\ Len(opened) < MaxDownloads
    /\ downloadPDF
    /\ UNCHANGED <<currentRouteId, reportData, overlay, console, requests,
                   network, promises, pc, dom, ran, navigation>>
    /\ UNCHANGED callVars
    /\ UNCHANGED <<activeLinks, event, menuButtons, innerWidth, narrowest,
                   readyState, second>>

Next ==
    \/ \E routeId \in RenderedRouteIds : DomContentLoaded(routeId)
    \/ \E i \in Slots : FetchRejected(i)
    \/ \E i \in Slots : FetchFulfilled(i)
    \/ \E i \in Slots : \E data \in Bodies(endpoints[i]) : JsonFulfilled(i, data)
    \/ \E i \in Slots : JsonRejected(i)
    \/ LoadReportDataResume
    \/ InitializeReportResume
    \/ ClickDownloadPDF

Spec == Init /\ [][Next]_vars

\* The page with a service that refuses a request or answers it with a JSON
\* body, or does neither.
FairNext ==
    \/ \E routeId \in RenderedRouteIds : DomContentLoaded(routeId)
    \/ \E i \in Slots : FetchRejected(i)
    \/ \E i \in Slots : FetchFulfilled(i)
    \/ \E i \in Slots : \E data \in Bodies(endpoints[i]) : JsonFulfilled(i, data)
    \/ LoadReportDataResume
    \/ InitializeReportResume

\* The event loop runs a continuation whose promise has settled; nothing
\* obliges the route-data service to answer.
FairSpec ==
    /\ Init
    /\ [][FairNext]_vars
    /\ WF_vars(LoadReportDataResume)
    /\ WF_vars(InitializeReportResume)

---------------------------------------------------------------------------
(* State machine of two calls of initializeReport: the first as in Spec,   *)
(* the second, for another route, made while requests of the first are     *)
(* unsettled or after the first has ended.  Both write the globals         *)
(* currentRouteId and reportData and the same containers; each has its own *)
(* promises.  The service answers every request.                           *)

\* The body the service sends for a route's endpoint: the overview carries
\* the route's id in route_info.id, which populateRouteDetails shows.
RouteBody(routeId, endpoint) ==
    IF endpoint = "overview"
    THEN [route_info |-> [id |-> Str(routeId)],
          statistics |-> Payload("overview").statistics]
    ELSE Payload(endpoint)

\* initializeReport(routeId) up to its await, called again (the function is
\* a property of window, report.js:1661) between two callbacks of the first
\* call: while a chain of the first call is unsettled, or after its end.
SecondInitializeReport(routeId) ==
    /\ \/ pc = "awaiting" /\ Unsettled(network) # {}
       \/ pc = "done"
    /\ second.pc = "idle"
    /\ Str(routeId) # currentRouteId
    /\ currentRouteId' = Str(routeId)
    /\ overlay' = "flex"
    /\ second' = [pc |-> "awaiting",
                  requests |-> fetchAll(routeId),
                  network |-> [i \in DOMAIN fetchAll(routeId) |-> Waiting],
                  promises |-> [i \in DOMAIN fetchAll(routeId) |-> Pending]]
    /\ UNCHANGED <<reportData, alerts, console, requests, network, promises,
                   pc, dom, ran, navigation>>
    /\ UNCHANGED <<callVars, uiVars>>

\* A request of the second call is answered: its chain waits for the body.
SecondFetchFulfilled(i) ==
    /\ i \in DOMAIN second.network
    /\ second.network[i].stage = "pending"
    /\ Cardinality(AwaitingBody(network)) + Cardinality(AwaitingBody(second.network))
          < MaxAwaitingBody
    /\ second' = [second EXCEPT !.network[i].stage = "responded"]
    /\ UNCHANGED <<pageVars, callVars, uiVars>>

\* The body of a response to the second call is decoded.
SecondJsonFulfilled(i) ==
    /\ i \in DOMAIN second.network
    /\ second.network[i].stage = "responded"
    /\ LET data == RouteBody(second.requests[i][3], endpoints[i]) IN
       second' = [second EXCEPT
                     !.network[i] = [stage |-> "decoded", body |-> data],
                     !.promises[i] = thenWrap(endpoints[i], data)]
    /\ UNCHANGED <<pageVars, callVars, uiVars>>

\* loadReportData of the second call after its await.
SecondLoadReportDataResume ==
    /\ second.pc = "awaiting"
    /\ LET all == PromiseAll(second.promises) IN
       /\ all.state # "pending"
       /\ IF all.state = "fulfilled"
          THEN /\ reportData' = ObjectAssign(all.value)
               /\ second' = [second EXCEPT !.pc = "loaded"]
          ELSE /\ second' = [second EXCEPT !.pc = "rejected"]
               /\ UNCHANGED reportData
    /\ UNCHANGED <<currentRouteId, overlay, alerts, console, requests,
                   network, promises, pc, dom, ran, navigation>>
    /\ UNCHANGED <<callVars, uiVars>>

\* initializeReport of the second call after its await.
SecondInitializeReportResume ==
    /\ second.pc \in {"loaded", "rejected"}
    /\ IF second.pc = "rejected"
       THEN /\ Caught(PromiseAll(second.promises).value)
            /\ UNCHANGED <<dom, ran>>
       ELSE LET r == populateFrom(1, reportData, dom, ran) IN
            /\ dom' = r.dom
            /\ ran' = r.ran
            /\ IF r.threw
               THEN Caught(TypeError)
               ELSE /\ navigation' = TRUE
                    /\ overlay' = "none"
                    /\ UNCHANGED <<alerts, console>>
    /\ second' = [second EXCEPT !.pc = "done"]
    /\ UNCHANGED <<currentRouteId, reportData, requests, network, promises, pc>>
    /\ UNCHANGED <<callVars, uiVars>>

OverlapNext ==
    \/ \E routeId \in RenderedRouteIds : DomContentLoaded(routeId)
    \/ \E i \in Slots : FetchFulfilled(i)
    \/ \E i \in Slots : JsonFulfilled(i, RouteBody(requests[i][3], endpoints[i]))
    \/ LoadReportDataResume
    \/ InitializeReportResume
    \/ \E routeId \in RouteIds : SecondInitializeReport(routeId)
    \/ \E i \in Slots : SecondFetchFulfilled(i)
    \/ \E i \in Slots : SecondJsonFulfilled(i)
    \/ SecondLoadReportDataResume
    \/ SecondInitializeReportResume

OverlapSpec == Init /\ [][OverlapNext]_vars

---------------------------------------------------------------------------
(* State machine of the direct calls: one helper or one global function of  *)
(* report.js is called once on the input drawn by ClassifierInit, and the   *)
(* template's DOMContentLoaded listener runs for any route_id (the requests *)
(* it issues stay unanswered).                                              *)

ClassifierInit ==
    /\ currentRouteId = Null
    /\ reportData = EmptyObject
    /\ overlay = "flex"
    /\ alerts = <<>>
    /\ console = <<>>
    /\ requests = <<>>
    /\ network = <<>>
    /\ promises = <<>>
    /\ pc = "idle"
    /\ dom = InitialDom
    /\ ran = <<>>
    /\ navigation = FALSE
    /\ applied = "none"
    /\ input \in Values \cup WeatherArguments \cup TrafficArguments
                 \cup TerrainArguments \cup ElevationArguments
                 \cup TurnArguments \cup SectionLoadingArguments
                 \cup ApiErrorArguments \cup {NoArguments}
    /\ result = Undefined
    /\ activeLinks = InitialActiveLinks
    /\ event = NoEvent
    /\ menuButtons = 0
    /\ innerWidth = 1024
    /\ narrowest = 1024
    /\ opened = <<>>
    /\ readyState = "loading"
    /\ second = NotCalled

\* classifier(input)
Apply(classifier) ==
    /\ applied = "none"
    /\ input \in Values
    /\ applied' = classifier
    /\ result' = Classify(classifier, input)
    /\ UNCHANGED input
    /\ UNCHANGED pageVars
    /\ UNCHANGED <<uiVars, second>>

CallGetStatusClass == Apply("getStatusClass")
CallGetScoreLabel == Apply("getScoreLabel")
CallGetRiskClass == Apply("getRiskClass")
CallGetRiskDescription == Apply("getRiskDescription")
CallGetTurnsClass == Apply("getTurnsClass")
CallGetTurnsLabel == Apply("getTurnsLabel")
CallGetComplianceClass == Apply("getComplianceClass")
CallGetServiceClass == Apply("getServiceClass")
CallGetCoverageClass == Apply("getCoverageClass")
CallGetTrafficClass == Apply("getTrafficClass")
CallGetTerrainClass == Apply("getTerrainClass")
CallGetEmergencyClass == Apply("getEmergencyClass")
CallGetWeatherIcon == Apply("getWeatherIcon")

\* generateWeatherPreparation(input.avgTemp, input.conditions)
CallGenerateWeatherPreparation ==
    /\ applied = "none"
    /\ input \in WeatherArguments
    /\ applied' = "generateWeatherPreparation"
    /\ result' = generateWeatherPreparation(input.avgTemp, input.conditions)
    /\ UNCHANGED input
    /\ UNCHANGED pageVars
    /\ UNCHANGED <<uiVars, second>>

\* generateTrafficRecommendations(input.trafficScore, input.congestion)
CallGenerateTrafficRecommendations ==
    /\ applied = "none"
    /\ input \in TrafficArguments
    /\ applied' = "generateTrafficRecommendations"
    /\ result' = generateTrafficRecommendations(input.trafficScore,
                                                input.congestion)
    /\ UNCHANGED input
    /\ UNCHANGED pageVars
    /\ UNCHANGED <<uiVars, second>>

\* generateTerrainChallenges(input.difficulty, input.elevationRange)
CallGenerateTerrainChallenges ==
    /\ applied = "none"
    /\ input \in TerrainArguments
    /\ applied' = "generateTerrainChallenges"
    /\ result' = generateTerrainChallenges(input.difficulty,
                                           input.elevationRange)
    /\ UNCHANGED input
    /\ UNCHANGED pageVars
    /\ UNCHANGED <<uiVars, second>>

\* generateElevationPreparation(input.elevationRange)
CallGenerateElevationPreparation ==
    /\ applied = "none"
    /\ input \in ElevationArguments
    /\ applied' = "generateElevationPreparation"
    /\ result' = generateElevationPreparation(input.elevationRange)
    /\ UNCHANGED input
    /\ UNCHANGED pageVars
    /\ UNCHANGED <<uiVars, second>>

\* The bands of the turn table for a turn of input.angle degrees.
CallClassifyTurn ==
    /\ applied = "none"
    /\ input \in TurnArguments
    /\ applied' = "classifyTurn"
    /\ result' = classifyTurn(input.angle.num)
    /\ UNCHANGED input
    /\ UNCHANGED pageVars
    /\ UNCHANGED <<uiVars, second>>

\* showSectionLoading(input.containerId)
CallShowSectionLoading ==
    /\ applied = "none"
    /\ input \in SectionLoadingArguments
    /\ applied' = "showSectionLoading"
    /\ result' = Undefined
    /\ dom' = showSectionLoading(input.containerId, dom)
    /\ UNCHANGED input
    /\ UNCHANGED <<currentRouteId, reportData, overlay, alerts, console,
                   requests, network, promises, pc, ran, navigation>>
    /\ UNCHANGED <<uiVars, second>>

\* handleApiError(input.endpoint, input.error)
CallHandleApiError ==
    /\ applied = "none"
    /\ input \in ApiErrorArguments
    /\ applied' = "handleApiError"
    /\ result' = handleApiError(input.endpoint, input.error).returned
    /\ console' = Append(console, handleApiError(input.endpoint, input.error).logged)
    /\ UNCHANGED input
    /\ UNCHANGED <<currentRouteId, reportData, overlay, alerts, requests,
                   network, promises, pc, dom, ran, navigation>>
    /\ UNCHANGED <<uiVars, second>>

\* downloadPDF() called directly (the function is a property of window,
\* report.js:1662), before or after initializeReport has set currentRouteId.
CallDownloadPDF ==
    /\ applied = "none"
    /\ input = NoArguments
    /\ applied' = "downloadPDF"
    /\ result' = Undefined
    /\ downloadPDF
    /\ UNCHANGED input
    /\ UNCHANGED <<currentRouteId, reportData, overlay, console, requests,
                   network, promises, pc, dom, ran, navigation>>
    /\ UNCHANGED <<activeLinks, event, menuButtons, innerWidth, narrowest,
                   readyState, second>>

ClassifierNext ==
    \/ \E routeId \in RouteIds \cup {""} : DomContentLoaded(routeId)
    \/ CallGenerateTrafficRecommendations
    \/ CallGenerateTerrainChallenges
    \/ CallGenerateElevationPreparation
    \/ CallClassifyTurn
    \/ CallShowSectionLoading
    \/ CallHandleApiError
    \/ CallDownloadPDF
    \/ CallGetStatusClass
    \/ CallGetScoreLabel
    \/ CallGetRiskClass
    \/ CallGetRiskDescription
    \/ CallGetTurnsClass
    \/ CallGetTurnsLabel
    \/ CallGetComplianceClass
    \/ CallGetServiceClass
    \/ CallGetCoverageClass
    \/ CallGetTrafficClass
    \/ CallGetTerrainClass
    \/ CallGetEmergencyClass
    \/ CallGetWeatherIcon
    \/ CallGenerateWeatherPreparation

ClassifierSpec == ClassifierInit /\ [][ClassifierNext]_vars

---------------------------------------------------------------------------
(* State machine of the section renderers: the page is built for a route   *)
(* whose payloads the service holds (input), and one renderer is called    *)
(* once more, directly, at any moment: before the data is loaded it reads  *)
(* an empty reportData, afterwards the payloads.                           *)

\* The payloads the service holds for the route, by category; for a category
\* absent from the record it holds Payload(category).
RenderInputs ==
    {[weather |-> w] : w \in WeatherPayloads}
    \cup {[overview |-> o] : o \in OverviewPayloads}
    \cup RiskZoneArguments
    \cup {[traffic |-> t] : t \in TrafficPayloads}
    \cup {[compliance |-> c] : c \in CompliancePayloads}
    \cup {[pois |-> p] : p \in PoisPayloads}
    \cup {[network |-> n] : n \in NetworkPayloads}
    \cup {[emergency |-> e] : e \in EmergencyPayloads}
    \cup {[elevation |-> e] : e \in ElevationPayloads}

\* The body the service sends for an endpoint.
ServiceBody(endpoint) ==
    IF endpoint \in DOMAIN input THEN input[endpoint] ELSE Payload(endpoint)

RenderInit ==
    /\ currentRouteId = Null
    /\ reportData = EmptyObject
    /\ overlay = "flex"
    /\ alerts = <<>>
    /\ console = <<>>
    /\ requests = <<>>
    /\ network = <<>>
    /\ promises = <<>>
    /\ pc = "idle"
    /\ dom = InitialDom
    /\ ran = <<>>
    /\ navigation = FALSE
    /\ applied = "none"
    /\ input \in RenderInputs
    /\ result = Undefined
    /\ activeLinks = InitialActiveLinks
    /\ event = NoEvent
    /\ menuButtons = 0
    /\ innerWidth = 1024
    /\ narrowest = 1024
    /\ opened = <<>>
    /\ readyState = "loading"
    /\ second = NotCalled

\* populateWeatherAnalysis(): the container it writes from the global
\* reportData, and what it renders.
RenderWeatherAnalysis ==
    /\ applied = "none"
    /\ "weather" \in DOMAIN input
    /\ applied' = "weatherAnalysis"
    /\ LET weather == Get(reportData, "weather") IN
       result' = IF NotAvailable(weather)
                 THEN Str("Weather analysis data not available")
                 ELSE weatherAnalysis(weather)
    /\ dom' = populateWeatherAnalysis(reportData, dom).dom
    /\ UNCHANGED input
    /\ UNCHANGED <<currentRouteId, reportData, overlay, alerts, console,
                   requests, network, promises, pc, ran, navigation>>
    /\ UNCHANGED <<uiVars, second>>

\* populateOverviewSection()
RenderOverviewSection ==
    /\ applied = "none"
    /\ "overview" \in DOMAIN input
    /\ applied' = "overviewSection"
    /\ LET overview == Get(reportData, "overview") IN
       result' = IF NotAvailable(overview)
                 THEN Str("Overview data not available")
                 ELSE overviewSection(overview)
    /\ dom' = populateOverviewSection(reportData, dom).dom
    /\ UNCHANGED input
    /\ UNCHANGED <<currentRouteId, reportData, overlay, alerts, console,
                   requests, network, promises, pc, ran, navigation>>
    /\ UNCHANGED <<uiVars, second>>

\* populateRiskZones()
RenderRiskZones ==
    /\ applied = "none"
    /\ "turns" \in DOMAIN input
    /\ applied' = "riskZones"
    /\ LET turns == Get(reportData, "turns") IN
       result' = IF NotAvailable(turns)
                 THEN Str("Risk zones data not available")
                 ELSE riskZones(turns, Get(reportData, "network"))
    /\ dom' = populateRiskZones(reportData, dom).dom
    /\ UNCHANGED input
    /\ UNCHANGED <<currentRouteId, reportData, overlay, alerts, console,
                   requests, network, promises, pc, ran, navigation>>
    /\ UNCHANGED <<uiVars, second>>

\* populateTrafficAnalysis()
RenderTrafficAnalysis ==
    /\ applied = "none"
    /\ "traffic" \in DOMAIN input
    /\ applied' = "trafficAnalysis"
    /\ LET traffic == Get(reportData, "traffic") IN
       result' = IF NotAvailable(traffic)
                 THEN Str("Traffic Data Status")
                 ELSE trafficAnalysis(traffic)
    /\ dom' = populateTrafficAnalysis(reportData, dom).dom
    /\ UNCHANGED input
    /\ UNCHANGED <<currentRouteId, reportData, overlay, alerts, console,
                   requests, network, promises, pc, ran, navigation>>
    /\ UNCHANGED <<uiVars, second>>

\* The other renderers that read a payload, and for each the category it
\* renders and what it interpolates for a payload of that category.
DirectSections ==
    {"populateRouteDetails", "populateSafetyCompliance",
     "populateSharpTurnsSection", "populatePointsOfInterest",
     "populateNetworkCoverage", "populateEmergencyPlanning",
     "populateElevationTerrain"}

CategoryOf(section) ==
    CASE section = "populateRouteDetails" -> "overview"
      [] section = "populateSafetyCompliance" -> "compliance"
      [] section = "populateSharpTurnsSection" -> "turns"
      [] section = "populatePointsOfInterest" -> "pois"
      [] section = "populateNetworkCoverage" -> "network"
      [] section = "populateEmergencyPlanning" -> "emergency"
      [] section = "populateElevationTerrain" -> "elevation"

View(section, payload) ==
    CASE section = "populateRouteDetails" -> routeDetails(payload)
      [] section = "populateSafetyCompliance" -> safetyCompliance(payload)
      [] section = "populateSharpTurnsSection" -> sharpTurns(payload)
      [] section = "populatePointsOfInterest" -> pointsOfInterest(payload)
      [] section = "populateNetworkCoverage" -> networkCoverage(payload)
      [] section = "populateEmergencyPlanning" -> emergencyPlanning(payload)
      [] section = "populateElevationTerrain" -> elevationTerrain(payload)

\* The renderer took the branch of its availability guard and wrote its
\* not-available message.
NotRendered == Str("data not available")

\* section(): the container it writes from the global reportData, and what
\* it renders.
RenderSection(section) ==
    /\ applied = "none"
    /\ CategoryOf(section) \in DOMAIN input
    /\ applied' = section
    /\ LET payload == Get(reportData, CategoryOf(section)) IN
       result' = IF NotAvailable(payload)
                 THEN NotRendered
                 ELSE View(section, payload)
    /\ dom' = Populate(section, reportData, dom).dom
    /\ UNCHANGED input
    /\ UNCHANGED <<currentRouteId, reportData, overlay, alerts, console,
                   requests, network, promises, pc, ran, navigation>>
    /\ UNCHANGED <<uiVars, second>>

RenderNext ==
    \/ \E routeId \in RenderedRouteIds : DomContentLoaded(routeId)
    \/ \E i \in Slots : FetchFulfilled(i)
    \/ \E i \in Slots : JsonFulfilled(i, ServiceBody(endpoints[i]))
    \/ LoadReportDataResume
    \/ InitializeReportResume
    \/ RenderWeatherAnalysis
    \/ RenderOverviewSection
    \/ RenderRiskZones
    \/ RenderTrafficAnalysis
    \/ \E section \in DirectSections : RenderSection(section)

RenderSpec == RenderInit /\ [][RenderNext]_vars

---------------------------------------------------------------------------
(* State machine of the sidebar and the navigation bar: the page as served, *)
(* then setupSidebarNavigation and the user's clicks, scrolls and resizes.  *)

UiInit ==
    /\ currentRouteId = Null
    /\ reportData = EmptyObject
    /\ overlay = "flex"
    /\ alerts = <<>>
    /\ console = <<>>
    /\ requests = <<>>
    /\ network = <<>>
    /\ promises = <<>>
    /\ pc = "idle"
    /\ dom = InitialDom
    /\ ran = <<>>
    /\ navigation = FALSE
    /\ applied = "none"
    /\ input = Undefined
    /\ result = Undefined
    /\ activeLinks = InitialActiveLinks
    /\ event = NoEvent
    /\ menuButtons = 0
    /\ innerWidth \in Widths
    /\ narrowest = innerWidth
    /\ opened = <<>>
    /\ readyState = "loading"
    /\ second = NotCalled

\* setupSidebarNavigation, report.js:1005-1033: registers the click handlers
\* and the scroll listener.
SetupSidebarNavigation ==
    /\ ~navigation
    /\ navigation' = TRUE
    /\ UNCHANGED <<currentRouteId, reportData, overlay, alerts, console,
                   requests, network, promises, pc, dom, ran>>
    /\ UNCHANGED <<callVars, uiVars, second>>

\* The click handler of a sidebar link, report.js:1008-1029.
Click(link) ==
    /\ navigation
    /\ link \in sidebarLinks
    /\ activeLinks' = (activeLinks \ sidebarLinks) \cup {link}
    /\ event' = [type |-> "click", link |-> link]
    /\ UNCHANGED <<menuButtons, innerWidth, narrowest, opened, readyState>>
    /\ UNCHANGED <<pageVars, callVars, second>>

\* A scroll event, handled by updateActiveNavLink, report.js:1032-1055.
Scroll(spanning) ==
    /\ navigation
    /\ activeLinks' = updateActiveNavLink(activeLinks, spanning)
    /\ event' = [type |-> "scroll", spanning |-> spanning]
    /\ UNCHANGED <<menuButtons, innerWidth, narrowest, opened, readyState>>
    /\ UNCHANGED <<pageVars, callVars, second>>

\* The window is resized to width, report.js:1558.  The resizes explored
\* are those that keep the buttons within MaxButtons, the one that the
\* DOMContentLoaded listener may still add included.
Resize(width) ==
    /\ innerWidth' = width
    /\ narrowest' = IF width < narrowest THEN width ELSE narrowest
    /\ menuButtons' = addMobileMenuButton(width, menuButtons)
    /\ menuButtons' + (IF readyState = "loading" THEN 1 ELSE 0) <= MaxButtons
    /\ event' = [type |-> "resize", width |-> width]
    /\ UNCHANGED <<activeLinks, opened, readyState>>
    /\ UNCHANGED <<pageVars, callVars, second>>

UiNext ==
    \/ SetupSidebarNavigation
    \/ \E link \in sidebarLinks : Click(link)
    \/ \E spanning \in {S \in SUBSET {reportSections[i] : i \in DOMAIN reportSections} :
                            Cardinality(S) <= MaxSpanning} : Scroll(spanning)
    \/ \E routeId \in RenderedRouteIds : DomContentLoaded(routeId)
    \/ \E width \in Widths : Resize(width)

UiSpec == UiInit /\ [][UiNext]_vars

---------------------------------------------------------------------------
(* Vocabulary of the properties *)

\* loadReportData has returned.
Built == pc \in {"loaded", "done"}

Categories ==
    {"overview", "turns", "pois", "network", "weather",
     "compliance", "elevation", "emergency", "traffic"}

\* { error: <message> } and nothing else.
IsErrorMarker(v) == DOMAIN v = {"error"} /\ IsString(v.error)

Issued(i) == i \in DOMAIN network

FailedRequest(i) == Issued(i) /\ network[i].stage \in {"failed", "undecodable"}
DecodedRequest(i) == Issued(i) /\ network[i].stage = "decoded"
PendingRequest(i) == Issued(i) /\ network[i].stage = "pending"
UnsettledRequest(i) == i \in Unsettled(network)

AllSettled == \A i \in 1..9 : FailedRequest(i) \/ DecodedRequest(i)

\* The failure message of a failed request.
FailureMessage(i) ==
    IF network[i].stage = "failed"
    THEN Str("Failed to fetch")
    ELSE Str("Unexpected token < in JSON at position 0")

---------------------------------------------------------------------------
(* C1 *)

\* C1: once loadReportData has returned, reportData has exactly the nine keys
\* overview, turns, pois, network, weather, compliance, elevation, emergency,
\* traffic, whatever the route and however many of the nine fetches failed.
C1_ExactlyNineKeys ==
    Built => /\ DOMAIN reportData = Categories
             /\ Cardinality(DOMAIN reportData) = 9

\* All nine fetches failed and the model still has its nine keys.
C1_Witness ==
    /\ pc = "loaded"
    /\ \A i \in 1..9 : FailedRequest(i)
    /\ Cardinality(DOMAIN reportData) = 9

---------------------------------------------------------------------------
(* C2 *)

\* C2: loadReportData never fails, and in the model it builds the entry of a
\* category whose fetch or decode failed is exactly {error: <failure
\* message>} while the entry of every other category is its decoded payload.
C2_FailureIsolated ==
    /\ pc # "rejected"
    /\ Built =>
         \A i \in 1..9 :
            LET entry == Get(reportData, endpoints[i]) IN
            /\ FailedRequest(i) => entry = [error |-> FailureMessage(i)]
            /\ DecodedRequest(i) => entry = network[i].body

\* A network failure, an undecodable body and a decoded payload side by side.
C2_Witness ==
    /\ pc = "loaded"
    /\ network[2].stage = "failed"
    /\ network[5].stage = "undecodable"
    /\ network[1].stage = "decoded"
    /\ reportData["turns"] = [error |-> Str("Failed to fetch")]
    /\ reportData["overview"] = Payload("overview")

---------------------------------------------------------------------------
(* C3 *)

\* C3: loadReportData has not completed, and reportData has not been
\* replaced, while any of the nine requests is unsettled.
C3_CompletesOnlyAfterAllSettle ==
    (pc \in {"loaded", "rejected", "done"} \/ reportData # EmptyObject)
        => AllSettled

\* The merge has happened, after the last of nine settlements.
C3_Witness ==
    /\ pc = "loaded"
    /\ reportData # EmptyObject
    /\ AllSettled

---------------------------------------------------------------------------
(* C4 *)

FailedSet == {i \in 1..9 : FailedRequest(i)}

\* Once all nine requests have settled the barrier loadReportData waits on
\* is fulfilled and the build is waiting, loaded or done; the completed model
\* holds an error marker for exactly the categories whose request failed and
\* the decoded payload for the rest.
SettledBuild ==
    /\ AllSettled =>
          /\ pc \in {"awaiting", "loaded", "done"}
          /\ PromiseAll(promises).state = "fulfilled"
    /\ pc = "done" =>
          \A i \in 1..9 :
             LET entry == Get(reportData, endpoints[i]) IN
             /\ IsErrorMarker(entry) <=> i \in FailedSet
             /\ i \notin FailedSet => entry = network[i].body

\* C4: whichever requests fail, once all nine have settled the build
\* eventually completes (initializeReport reaches its end), and the completed
\* model holds an error marker for exactly the categories whose request
\* failed and the decoded payload for the rest.
C4_SettledBuildCompletes ==
    /\ []SettledBuild
    /\ AllSettled ~> (pc = "done")

\* Five of nine failed: five markers, four payloads, build complete.
C4_Witness ==
    /\ pc = "done"
    /\ Cardinality(FailedSet) = 5
    /\ Cardinality({c \in Categories : IsErrorMarker(reportData[c])}) = 5
    /\ Cardinality({i \in 1..9 : reportData[endpoints[i]] = Payload(endpoints[i])}) = 4

---------------------------------------------------------------------------
(* C5, C6 *)

\* The reportData keys each section renderer reads.
Reads(section) ==
    CASE section \in {"populateRouteDetails", "populateOverviewSection"} ->
            {"overview"}
      [] section = "populateSafetyCompliance" -> {"compliance"}
      [] section = "populateRiskZones" -> {"turns", "network"}
      [] section = "populateSeasonalConditions" -> {"turns", "overview"}
      [] section = "populateSharpTurnsSection" -> {"turns"}
      [] section = "populatePointsOfInterest" -> {"pois"}
      [] section = "populateNetworkCoverage" -> {"network"}
      [] section = "populateWeatherAnalysis" -> {"weather"}
      [] section = "populateEmergencyPlanning" -> {"emergency"}
      [] section = "populateTrafficAnalysis" -> {"traffic"}
      [] section = "populateElevationTerrain" -> {"elevation"}
      [] OTHER -> {}

\* The containers each section renderer fills when it has data.
ContainersOf(section) ==
    CASE section = "populateRouteDetails" -> {"routeDetailsCard"}
      [] section = "populateOverviewSection" ->
            {"routeInfoCard", "statisticsCard", "statusIndicators"}
      [] section = "populateSafetyCompliance" -> {"complianceGrid"}
      [] section = "populateRiskZones" -> {"riskZonesContainer"}
      [] section = "populateSeasonalConditions" -> {"seasonalContainer"}
      [] section = "populateEnvironmentalSection" -> {"environmentalContainer"}
      [] section = "populateSharpTurnsSection" -> {"turnsContainer"}
      [] section = "populatePointsOfInterest" -> {"poiContainer"}
      [] section = "populateNetworkCoverage" -> {"networkContainer"}
      [] section = "populateWeatherAnalysis" -> {"weatherContainer"}
      [] section = "populateEmergencyPlanning" -> {"emergencyContainer"}
      [] section = "populateRouteMap" -> {"mapContainer"}
      [] section = "populateTrafficAnalysis" -> {"trafficContainer"}
      [] section = "populateElevationTerrain" -> {"elevationContainer"}

ShowsNotAvailable(section) ==
    \E c \in ContainersOf(section) :
        dom[c].class \in {"error", "traffic-unavailable", "elevation-unavailable"}

FullyRendered(section) ==
    \A c \in ContainersOf(section) : dom[c].class = "content"

ErrorMarkers == {c \in DOMAIN reportData : IsErrorMarker(reportData[c])}

\* C5: when the built model carries an error marker for exactly one category
\* X, a finished initializeReport shows a not-available message only in
\* sections that read X, and every section that reads only other categories
\* is fully rendered.
C5_ErrorContainedToSection ==
    pc = "done" =>
        \A x \in Categories :
            ErrorMarkers = {x} =>
                \A k \in 1..14 :
                    /\ ShowsNotAvailable(sections[k]) => x \in Reads(sections[k])
                    /\ x \notin Reads(sections[k]) => FullyRendered(sections[k])

Executed(section) == \E j \in 1..Len(ran) : ran[j].section = section

\* C6: when a section renderer raises, every renderer after it in
\* initializeReport is still executed and its section is still rendered.
C6_ExceptionDoesNotHaltBuild ==
    pc = "done" =>
        \A k \in 1..14 :
            (\E j \in 1..Len(ran) : ran[j].section = sections[k] /\ ran[j].raised)
                => \A m \in (k + 1)..14 :
                      /\ Executed(sections[m])
                      /\ \A c \in ContainersOf(sections[m]) :
                            dom[c] # LoadingPlaceholder

---------------------------------------------------------------------------
(* C7 *)

\* C7: when all nine requests fail, initializeReport ends normally: nine
\* error markers, all fourteen renderers run without raising, the catch
\* clause is not taken (no alert, nothing logged), the sidebar is set up and
\* the loading overlay is hidden.
C7_TotalFailureRenders ==
    (\A i \in 1..9 : FailedRequest(i)) =>
        /\ pc # "rejected"
        /\ pc = "done" =>
              /\ \A c \in Categories : IsErrorMarker(Get(reportData, c))
              /\ Len(ran) = 14
              /\ \A k \in 1..Len(ran) :
                    ran[k].section = sections[k] /\ ~ran[k].raised
              /\ alerts = <<>>
              /\ console = <<>>
              /\ navigation
              /\ overlay = "none"

\* Total failure, rendered to the end.
C7_Witness ==
    /\ pc = "done"
    /\ \A i \in 1..9 : FailedRequest(i)
    /\ Len(ran) = 14
    /\ overlay = "none"
    /\ dom["routeInfoCard"] = ErrorParagraph("Overview data not available")

---------------------------------------------------------------------------
(* C8 *)

\* C8: all nine requests are issued before loadReportData waits for any
\* outcome, and the outcome of a settled request is recorded in its chain
\* whether or not other requests are still pending.
C8_ConcurrentFanOut ==
    pc # "idle" =>
        /\ Len(requests) = 9
        /\ \A i \in 1..9 :
              /\ requests[i] = Url(currentRouteId.str, endpoints[i])
              /\ Issued(i)
              /\ (FailedRequest(i) \/ DecodedRequest(i))
                    => promises[i].state = "fulfilled"

\* The last request's outcome is recorded while the first is still pending.
C8_Witness ==
    /\ pc = "awaiting"
    /\ PendingRequest(1)
    /\ DecodedRequest(9)
    /\ promises[9] = Fulfilled([traffic |-> Payload("traffic")])
    /\ promises[1] = Pending

---------------------------------------------------------------------------
(* C9 *)

\* C9: the built model does not depend on the order of settlement: a chain,
\* once settled, is never written again, a step settles no chain but the one
\* whose request it answers, the value of chain i has the single key of
\* category i, and the merged model maps each category to its own chain's
\* value.
C9_OrderIndependent ==
    /\ [][\A i \in 1..9 :
             (i \in DOMAIN promises /\ promises[i] # promises'[i])
                 => /\ promises[i] = Pending
                    /\ UnsettledRequest(i)
                    /\ ~UnsettledRequest(i)']_vars
    /\ [](\A i \in DOMAIN promises :
             promises[i].state = "fulfilled"
                 => DOMAIN promises[i].value = {endpoints[i]})
    /\ [](Built =>
            \A i \in 1..9 :
               /\ i \in DOMAIN promises
               /\ Get(reportData, endpoints[i])
                     = Get(promises[i].value, endpoints[i]))

\* Settlement out of issue order: 3 and 4 have settled, 2 and 5 have not.
C9_Witness ==
    /\ pc = "awaiting"
    /\ PendingRequest(2)
    /\ FailedRequest(3)
    /\ DecodedRequest(4)
    /\ PendingRequest(5)

---------------------------------------------------------------------------
(* C10 *)

\* C10: every request has its own timeout, so a build that is waiting
\* completes even when an endpoint never answers.
C10_BuildCompletesWithoutAnswer == (pc = "awaiting") ~> (pc = "done")

---------------------------------------------------------------------------
(* C11 *)

\* C11: there is no retry: once a build has started, each of the nine
\* category endpoints of the route has been requested exactly once, also
\* after requests have failed and after the build has finished.
C11_NoRetry ==
    pc # "idle" =>
        /\ Len(requests) = Cardinality(Categories)
        /\ \A e \in Categories :
              Cardinality({i \in DOMAIN requests :
                              requests[i] = Url(currentRouteId.str, e)}) = 1
        /\ \A i \in DOMAIN requests :
              FailedRequest(i) =>
                  Cardinality({j \in DOMAIN requests : requests[j] = requests[i]}) = 1

\* The build has finished, the overview and the turns requests failed, and
\* nine requests were made.
C11_Witness ==
    /\ pc = "done"
    /\ FailedRequest(1)
    /\ FailedRequest(2)
    /\ Len(requests) = 9

---------------------------------------------------------------------------
(* C12 *)

\* C12: reportData is changed only by the merge at the end of loadReportData,
\* once, from the empty object to the nine-key model when all nine requests
\* have settled: no settlement writes to it, it is never partially populated,
\* and no section renderer or classifier modifies it.
C12_WrittenOnlyByMerge ==
    /\ [][reportData' # reportData =>
              /\ pc = "awaiting"
              /\ pc' = "loaded"
              /\ AllSettled
              /\ reportData = EmptyObject
              /\ DOMAIN reportData' = Categories]_vars
    /\ [](DOMAIN reportData \in {{}, Categories})
    /\ [](pc = "done" /\ alerts = <<>> =>
              reportData = ObjectAssign(PromiseAll(promises).value))

\* All fourteen renderers have run and reportData is still the merged model.
C12_Witness ==
    /\ pc = "done"
    /\ Len(ran) = Len(sections)
    /\ reportData = ObjectAssign(PromiseAll(promises).value)
    /\ DOMAIN reportData = Categories

---------------------------------------------------------------------------
(* C13 *)

\* C13: no section renderer runs, and no container is written, before the
\* aggregation has finished: all nine requests have settled and the merged
\* nine-key model is stored in reportData.
C13_RenderAfterAggregation ==
    (ran # <<>> \/ dom # InitialDom) =>
        /\ AllSettled
        /\ DOMAIN reportData = Categories
        /\ reportData = ObjectAssign(PromiseAll(promises).value)
        /\ pc = "done"

\* The points-of-interest section has been rendered from its payload while
\* another request had failed.
C13_Witness ==
    /\ dom["poiContainer"] = Rendered("points-of-interest")
    /\ Len(ran) = Len(sections)
    /\ FailedRequest(9)

---------------------------------------------------------------------------
(* Vocabulary of the classifier properties *)

ScoreClassifiers ==
    {"getStatusClass", "getScoreLabel", "getServiceClass", "getCoverageClass",
     "getTrafficClass", "getComplianceClass", "getEmergencyClass"}

EnumClassifiers ==
    {"getRiskClass", "getRiskDescription", "getTerrainClass", "getWeatherIcon"}

\* The lowest and the highest threshold a score classifier tests.
LowestThreshold(classifier) ==
    CASE classifier = "getCoverageClass" -> 50
      [] classifier \in {"getComplianceClass", "getEmergencyClass"} -> 60
      [] OTHER -> 40

HighestThreshold(classifier) ==
    IF classifier = "getCoverageClass" THEN 85 ELSE 80

WorstTier(classifier) ==
    IF classifier = "getScoreLabel" THEN Str("Poor") ELSE Str("status-poor")

BestTier(classifier) ==
    IF classifier = "getScoreLabel" THEN Str("Excellent")
    ELSE Str("status-excellent")

\* poor < moderate < good < excellent
TierRank(tier) ==
    CASE tier \in {Str("status-poor"), Str("Poor")} -> 0
      [] tier \in {Str("status-moderate"), Str("Moderate")} -> 1
      [] tier \in {Str("status-good"), Str("Good")} -> 2
      [] tier \in {Str("status-excellent"), Str("Excellent")} -> 3

\* The tier of v when the bands start at excellent, good and moderate.
Band(v, excellent, good, moderate) ==
    CASE v >= excellent -> Str("status-excellent")
      [] v >= good /\ v < excellent -> Str("status-good")
      [] v >= moderate /\ v < good -> Str("status-moderate")
      [] v < moderate -> Str("status-poor")

\* The spellings of a lower-case word in the model: itself and its variants
\* in other letter cases.
Spellings(word) ==
    {word} \cup UNION {t[2] : t \in {u \in CaseTable : u[1] = word}}

RiskVocabulary == {"critical", "high", "medium", "moderate", "low"}
TerrainVocabulary == {"plains", "hilly", "high_plateau", "mountainous"}
WeatherVocabulary ==
    {"clear", "sunny", "clouds", "cloudy", "rain", "drizzle", "thunderstorm",
     "snow", "mist", "fog", "haze"}

Vocabulary(classifier) ==
    CASE classifier \in {"getRiskClass", "getRiskDescription"} -> RiskVocabulary
      [] classifier = "getTerrainClass" -> TerrainVocabulary
      [] classifier = "getWeatherIcon" -> WeatherVocabulary

\* Every spelling of a word of the vocabulary.
VocabularySpellings(words) == UNION {Spellings(w) : w \in words}

---------------------------------------------------------------------------
(* C14 *)

\* C14: for each numeric score classifier, every number below its lowest
\* threshold maps to the worst tier (status-poor, 'Poor') and every number at
\* or above its highest threshold maps to the best tier (status-excellent,
\* 'Excellent').
C14_ExtremeTiers ==
    applied \in ScoreClassifiers /\ IsNumber(input) =>
        /\ input.num < LowestThreshold(applied) => result = WorstTier(applied)
        /\ input.num >= HighestThreshold(applied) => result = BestTier(applied)

\* getComplianceClass(80) returned status-excellent.
C14_Witness ==
    /\ applied = "getComplianceClass"
    /\ input = Num(80)
    /\ result = Str("status-excellent")

---------------------------------------------------------------------------
(* C15 *)

\* C15: classification is monotonic for every numeric metric classifier,
\* getTurnsClass included: for all v1 <= v2 the tier of v1 is never better
\* than the tier of v2.  Stated for the values a score or a count takes,
\* from 0 up.
C15_MonotonicAllClassifiers ==
    /\ applied \in ScoreClassifiers \cup {"getTurnsClass"}
    /\ IsNumber(input)
    /\ input.num >= 0
    =>
        \A v2 \in Scores :
            input.num <= v2 =>
                TierRank(result) <= TierRank(Classify(applied, Num(v2)))

\* C15, as the code has it: the score classifiers are monotonic (for
\* v1 <= v2 the tier of v1 is never better than the tier of v2), and
\* getTurnsClass, which grades a count of critical turns, is monotonic the
\* other way on counts from 0 up (the tier of v1 is never worse than the tier
\* of v2).
C15_MonotonicByDirection ==
    /\ applied \in ScoreClassifiers /\ IsNumber(input) =>
          \A v2 \in Scores :
              input.num <= v2 =>
                  TierRank(result) <= TierRank(Classify(applied, Num(v2)))
    /\ applied = "getTurnsClass" /\ IsNumber(input) /\ input.num >= 0 =>
          \A v2 \in Scores :
              input.num <= v2 =>
                  TierRank(result) >= TierRank(Classify(applied, Num(v2)))

\* getTurnsClass(0) returned status-excellent, a better tier than that of
\* the larger count 6.
C15_Witness ==
    /\ applied = "getTurnsClass"
    /\ input = Num(0)
    /\ result = Str("status-excellent")
    /\ getTurnsClass(Num(6)) = Str("status-poor")

---------------------------------------------------------------------------
(* C16 *)

\* C16: each metric keeps its own boundaries: getCoverageClass has the bands
\* from 85, 70 and 50, getStatusClass and getTrafficClass from 80, 60 and 40,
\* and every score classifier maps every number to exactly one tier.
C16_OwnBoundaries ==
    IsNumber(input) =>
        /\ applied = "getCoverageClass" => result = Band(input.num, 85, 70, 50)
        /\ applied \in {"getStatusClass", "getTrafficClass"} =>
              result = Band(input.num, 80, 60, 40)
        /\ applied \in ScoreClassifiers =>
              Cardinality({r \in 0..3 : TierRank(result) = r}) = 1

\* getCoverageClass(80) returned status-good, where the safety score 80 is
\* status-excellent.
C16_Witness ==
    /\ applied = "getCoverageClass"
    /\ input = Num(80)
    /\ result = Str("status-good")
    /\ getStatusClass(Num(80)) = Str("status-excellent")

---------------------------------------------------------------------------
(* C17 *)

\* The neutral default of a classifier's input: 'Unknown' for the enum
\* classifiers, 0 for the score and count classifiers.
NeutralDefault(classifier) ==
    IF classifier \in EnumClassifiers THEN Str("Unknown") ELSE Num(0)

\* The call of each classifier but getWeatherIcon: the renderer that makes
\* it, and the field of the payload its argument is read from, report.js
\* 158-175, 195, 506, 555, 670, 855 and 930.  getWeatherIcon is called at
\* line 1249 with the names of the entries of the conditions object.
CallSite(classifier) ==
    CASE classifier \in {"getStatusClass", "getScoreLabel"} ->
            [call |-> "overviewSection", category |-> "overview",
             object |-> "statistics", field |-> "safety_score"]
      [] classifier \in {"getRiskClass", "getRiskDescription"} ->
            [call |-> "overviewSection", category |-> "overview",
             object |-> "statistics", field |-> "risk_level"]
      [] classifier \in {"getTurnsClass", "getTurnsLabel"} ->
            [call |-> "overviewSection", category |-> "overview",
             object |-> "statistics", field |-> "critical_turns"]
      [] classifier = "getComplianceClass" ->
            [call |-> "populateSafetyCompliance", category |-> "compliance",
             object |-> "compliance_assessment", field |-> "overall_score"]
      [] classifier = "getServiceClass" ->
            [call |-> "populatePointsOfInterest", category |-> "pois",
             object |-> "statistics", field |-> "coverage_score"]
      [] classifier = "getCoverageClass" ->
            [call |-> "populateNetworkCoverage", category |-> "network",
             object |-> "statistics", field |-> "overall_coverage_score"]
      [] classifier = "getEmergencyClass" ->
            [call |-> "populateEmergencyPlanning", category |-> "emergency",
             object |-> "preparedness_assessment", field |-> "emergency_score"]
      [] classifier = "getTrafficClass" ->
            [call |-> "trafficAnalysis", category |-> "traffic",
             object |-> "statistics", field |-> "overall_traffic_score"]
      [] classifier = "getTerrainClass" ->
            [call |-> "populateElevationTerrain", category |-> "elevation",
             object |-> "terrain_analysis", field |-> "terrain_type"]

\* The value of that field in a payload of the category; the emergency score
\* is read from the payload itself when it has no preparedness_assessment.
FieldValue(classifier, payload) ==
    LET site == CallSite(classifier)
        object == OrElse(Get(payload, site.object),
                         IF classifier = "getEmergencyClass"
                         THEN payload ELSE EmptyObject)
    IN Get(object, site.field)

\* What the rendered section shows as the result of the classifier.
Shown(classifier, view) ==
    CASE classifier = "getStatusClass" -> view.statusIndicators.safetyClass
      [] classifier = "getScoreLabel" -> view.statusIndicators.safetyLabel
      [] classifier = "getRiskClass" -> view.statusIndicators.riskClass
      [] classifier = "getRiskDescription" ->
            view.statusIndicators.riskDescription
      [] classifier = "getTurnsClass" -> view.statusIndicators.turnsClass
      [] classifier = "getTurnsLabel" -> view.statusIndicators.turnsLabel
      [] OTHER -> view.class

\* The step is a call of the renderer that applies classifier, on an
\* available payload in which the field the classifier reads is missing.
ClassifiedMissingField(classifier) ==
    /\ applied = "none"
    /\ applied' = CallSite(classifier).call
    /\ ~NotAvailable(Get(reportData, CallSite(classifier).category))
    /\ FieldValue(classifier, Get(reportData, CallSite(classifier).category))
           \in {Undefined, Null}

\* C17: a classifier applied to a missing field (undefined or null) of a
\* payload does not throw and yields what it yields for its neutral default,
\* 0 for the score and count classifiers and 'Unknown' for the enum
\* classifiers; when the renderer raises all the same, it is on a risk level
\* that is present.  getWeatherIcon is applied to the names of the
\* conditions, never to a missing value, and does not throw; without a
\* conditions object it is not called.
C17_MissingInputDefaults ==
    [][/\ \A classifier \in Classifiers \ {"getWeatherIcon"} :
             ClassifiedMissingField(classifier) =>
                 IF result' = TypeError
                 THEN /\ CallSite(classifier).call = "overviewSection"
                      /\ FieldValue("getRiskClass", Get(reportData, "overview"))
                             \notin {Undefined, Null}
                 ELSE /\ Shown(classifier, result') # TypeError
                      /\ Shown(classifier, result') =
                             Classify(classifier, NeutralDefault(classifier))
       /\ (/\ applied = "none"
           /\ applied' = "weatherAnalysis"
           /\ ~NotAvailable(Get(reportData, "weather"))) =>
             /\ \A condition \in DOMAIN result'.conditions :
                    /\ condition \in DOMAIN reportData.weather.conditions_summary
                    /\ result'.conditions[condition].icon # TypeError
             /\ Get(reportData.weather, "conditions_summary")
                    \in {Undefined, Null} => DOMAIN result'.conditions = {}]_vars

\* populateSafetyCompliance rendered a payload the build loaded, whose
\* overall_score is null: the score shows the class of 0.
C17_Witness ==
    /\ applied = "populateSafetyCompliance"
    /\ pc = "done"
    /\ Get(reportData, "compliance") =
           [compliance_assessment |-> [overall_score |-> Null]]
    /\ result # NotRendered
    /\ result.class = getComplianceClass(Num(0))
    /\ result.score = Num(0)

---------------------------------------------------------------------------
(* C18 *)

\* C18: for every risk-level string outside the vocabulary critical, high,
\* medium, moderate, low (in any letter case), getRiskClass returns
\* status-moderate and getRiskDescription returns its default text; neither
\* raises an error.
C18_UnknownRiskDefaults ==
    /\ IsString(input)
    /\ input.str \notin VocabularySpellings(RiskVocabulary)
    => /\ applied = "getRiskClass" => result = Str("status-moderate")
       /\ applied = "getRiskDescription" =>
             result = Str("Risk assessment pending")

\* getRiskClass('catastrophic') returned status-moderate.
C18_Witness ==
    /\ applied = "getRiskClass"
    /\ input = Str("catastrophic")
    /\ result = Str("status-moderate")

---------------------------------------------------------------------------
(* C19 *)

\* C19: for every terrain type outside the vocabulary plains, hilly,
\* high_plateau, mountainous, including 'Unknown' and a missing value,
\* getTerrainClass returns the default tier status-moderate and never throws.
C19_UnknownTerrainModerate ==
    /\ applied = "getTerrainClass"
    /\ \/ input \in {Undefined, Null}
       \/ /\ IsString(input)
          /\ input.str \notin VocabularySpellings(TerrainVocabulary)
    => result = Str("status-moderate")

---------------------------------------------------------------------------
(* C20 *)

\* The condition names that name rain or a storm, in any letter case.
RainOrStormNames ==
    VocabularySpellings({"rain", "storm", "thunderstorm", "heavy rain"})

\* C20: enum matching is case-insensitive: for every spelling of a
\* vocabulary word the enum classifiers return what they return for the
\* lower-case word, and generateWeatherPreparation gives the wet-weather
\* preparations when a condition name is rain or a storm in any letter case.
C20_CaseInsensitive ==
    /\ applied \in EnumClassifiers /\ IsString(input) =>
          \A w \in Vocabulary(applied) :
              input.str \in Spellings(w) => result = Classify(applied, Str(w))
    /\ applied = "generateWeatherPreparation" =>
          ((\E c \in DOMAIN input.conditions : c \in RainOrStormNames) =>
              \A k \in DOMAIN WetWeatherPreparations :
                  \E i \in DOMAIN result : result[i] = WetWeatherPreparations[k])

---------------------------------------------------------------------------
(* C21 *)

\* The band the angle a >= 60 belongs to: its classification, risk level and
\* speed cap in km/h.
ExpectedBand(a) ==
    IF a >= 90 THEN <<"EXTREME BLIND SPOT", "CRITICAL", 15>>
    ELSE IF a >= 80 THEN <<"HIGH-RISK BLIND SPOT", "EXTREME", 20>>
    ELSE IF a >= 70 THEN <<"BLIND SPOT", "HIGH", 25>>
    ELSE <<"HIGH-ANGLE TURN", "MEDIUM", 30>>

\* C21: the turn table maps every angle of at least 60 degrees to exactly one
\* band: 60-70 HIGH-ANGLE TURN / MEDIUM / 30 km/h, 70-80 BLIND SPOT / HIGH /
\* 25 km/h, 80-90 HIGH-RISK BLIND SPOT / EXTREME / 20 km/h, 90 and above
\* EXTREME BLIND SPOT / CRITICAL / 15 km/h; and the speed cap of an angle is
\* never above the speed cap of a smaller angle.
C21_OneBandPerAngle ==
    applied = "classifyTurn" /\ input.angle.num >= 60 =>
        /\ Cardinality(result) = 1
        /\ \A row \in result :
               <<row.classification, row.risk, row.speed>> =
                   ExpectedBand(input.angle.num)
        /\ \A smaller \in 60..input.angle.num :
               \A row \in result, other \in classifyTurn(smaller) :
                   row.speed <= other.speed

\* A turn of 95 degrees was looked up and is an EXTREME BLIND SPOT at 15 km/h.
C21_Witness ==
    /\ applied = "classifyTurn"
    /\ input.angle = Num(95)
    /\ \E row \in result :
           row.classification = "EXTREME BLIND SPOT" /\ row.speed = 15

---------------------------------------------------------------------------
(* C22 *)

Generators ==
    {"generateWeatherPreparation", "generateTrafficRecommendations",
     "generateTerrainChallenges", "generateElevationPreparation"}

\* The condition names that contain "Rain" or "Storm" as written.
WetRuleNames == {"Rain", "Heavy Rain", "Storm"}

\* A rule of generateWeatherPreparation fires on the arguments args.
WeatherRuleFires(args) ==
    \/ args.avgTemp.num > 35
    \/ args.avgTemp.num < 10
    \/ DOMAIN args.conditions \cap WetRuleNames # {}

\* C22: no recommendation generator returns an empty list, and
\* generateWeatherPreparation returns exactly the three standard items if and
\* only if none of its rules fires.
C22_NeverEmpty ==
    /\ applied \in Generators => Len(result) > 0
    /\ applied = "generateWeatherPreparation" =>
           (result = StandardPreparations <=> ~WeatherRuleFires(input))

\* generateWeatherPreparation was called with no rule firing and returned the
\* standard items.
C22_Witness ==
    /\ applied = "generateWeatherPreparation"
    /\ ~WeatherRuleFires(input)
    /\ result = StandardPreparations
    /\ Len(result) = 3

---------------------------------------------------------------------------
(* C23 *)

\* The list a generator returns when every rule whose condition holds
\* contributes its advice, in the order the rules are declared; a generator
\* with a last resort contributes it when no rule fires.
Additive(generator, args) ==
    CASE generator = "generateWeatherPreparation" ->
            LET advice ==
                    (IF args.avgTemp.num > 35
                     THEN HotWeatherPreparations ELSE <<>>)
                    \o (IF args.avgTemp.num < 10
                        THEN ColdWeatherPreparations ELSE <<>>)
                    \o (IF DOMAIN args.conditions \cap WetRuleNames # {}
                        THEN WetWeatherPreparations ELSE <<>>)
            IN IF advice = <<>> THEN StandardPreparations ELSE advice
      [] generator = "generateTrafficRecommendations" ->
            LET heavy == IF "heavy_traffic_segments" \in DOMAIN args.congestion
                         THEN args.congestion.heavy_traffic_segments.num ELSE 0
                moderate ==
                    IF "moderate_traffic_segments" \in DOMAIN args.congestion
                    THEN args.congestion.moderate_traffic_segments.num ELSE 0
            IN (IF heavy > 0
                THEN HeavyTrafficRecommendations(Num(heavy)) ELSE <<>>)
               \o (IF moderate > 0
                   THEN ModerateTrafficRecommendations(Num(moderate)) ELSE <<>>)
               \o (IF args.trafficScore.num < 50
                   THEN LowScoreRecommendations ELSE <<>>)
               \o GeneralTrafficRecommendations
      [] generator = "generateTerrainChallenges" ->
            LET advice ==
                    (IF args.difficulty = Str("HIGH")
                        \/ args.elevationRange.num > 1000
                     THEN SteepTerrainChallenges ELSE <<>>)
                    \o (IF args.difficulty = Str("MEDIUM")
                           \/ args.elevationRange.num > 500
                        THEN ModerateTerrainChallenges ELSE <<>>)
            IN IF advice = <<>> THEN FlatTerrainChallenges ELSE advice
      [] generator = "generateElevationPreparation" ->
            LET advice ==
                    (IF args.elevationRange.num > 1000
                     THEN HighElevationPreparations ELSE <<>>)
                    \o (IF args.elevationRange.num > 500
                        THEN MediumElevationPreparations ELSE <<>>)
            IN IF advice = <<>> THEN LowElevationPreparations ELSE advice

\* The list of a generator whose rules are tiers: only the first rule whose
\* condition holds contributes.
Tiered(generator, args) ==
    CASE generator = "generateTerrainChallenges" ->
            IF args.difficulty = Str("HIGH") \/ args.elevationRange.num > 1000
            THEN SteepTerrainChallenges
            ELSE IF args.difficulty = Str("MEDIUM")
                    \/ args.elevationRange.num > 500
            THEN ModerateTerrainChallenges
            ELSE FlatTerrainChallenges
      [] generator = "generateElevationPreparation" ->
            IF args.elevationRange.num > 1000 THEN HighElevationPreparations
            ELSE IF args.elevationRange.num > 500
            THEN MediumElevationPreparations
            ELSE LowElevationPreparations

\* C23 as stated: in every recommendation generator the rules are additive,
\* the output is the advice of all firing rules in declaration order.
C23_AllGeneratorsAdditive ==
    applied \in Generators => result = Additive(applied, input)

\* C23: the rules of generateWeatherPreparation and of
\* generateTrafficRecommendations are independent and additive, the output is
\* the advice of all firing rules in declaration order; the rules of
\* generateTerrainChallenges and of generateElevationPreparation are tiers,
\* the output is the advice of the first rule that fires only.
C23_AdditiveOrTiered ==
    /\ applied \in {"generateWeatherPreparation",
                    "generateTrafficRecommendations"} =>
           result = Additive(applied, input)
    /\ applied \in {"generateTerrainChallenges",
                    "generateElevationPreparation"} =>
           result = Tiered(applied, input)

\* generateTrafficRecommendations was called with heavy and moderate segments
\* and a score below 50: all three rules contributed before the general items.
C23_Witness ==
    /\ applied = "generateTrafficRecommendations"
    /\ Gt(Get(input.congestion, "heavy_traffic_segments"), 0)
    /\ Gt(Get(input.congestion, "moderate_traffic_segments"), 0)
    /\ Lt(input.trafficScore, 50)
    /\ Len(result) = 7

---------------------------------------------------------------------------
(* C24 *)

\* The items of advice occur in list, in order and next to each other.
Contains(list, advice) ==
    \E i \in 0..Len(list) :
        /\ i + Len(advice) <= Len(list)
        /\ \A k \in DOMAIN advice : list[i + k] = advice[k]

\* C24: for a weather payload whose statistics.average_temperature is a
\* number below 10, zero and negative numbers included, the preparation list
\* populateWeatherAnalysis renders contains the cold-weather advice, and for a
\* number above 35 it contains the cooling advice.
C24_TemperatureAdvice ==
    [][applied = "none" /\ applied' = "weatherAnalysis"
       /\ IsNumber(Get(Get(Get(reportData, "weather"), "statistics"),
                       "average_temperature")) =>
           LET t == reportData.weather.statistics.average_temperature.num IN
           /\ t < 10 => Contains(result'.preparation, ColdWeatherPreparations)
           /\ t > 35 => Contains(result'.preparation, HotWeatherPreparations)]_vars

---------------------------------------------------------------------------
(* C25 *)

\* What populateOverviewSection shows for an empty payload, with safetyCell
\* in the Safety Score cell of the statistics table.
EmptyOverview(safetyCell) ==
    [routeInfoCard |->
         [from_address |-> Str("Not specified"),
          to_address |-> Str("Not specified"),
          distance |-> Str("Not calculated"),
          duration |-> Str("Not calculated"),
          total_points |-> Num(0)],
     statisticsCard |->
         [total_sharp_turns |-> Num(0),
          critical_turns |-> Num(0),
          total_pois |-> Num(0),
          safety_score |-> safetyCell,
          risk_level |-> Str("Unknown")],
     statusIndicators |->
         [safetyClass |-> Str("status-poor"),
          safetyScore |-> Num(0),
          safetyLabel |-> Str("Poor"),
          riskClass |-> Str("status-moderate"),
          riskLevel |-> Str("Unknown"),
          riskDescription |-> Str("Risk assessment pending"),
          turnsClass |-> Str("status-excellent"),
          criticalTurns |-> Num(0),
          turnsLabel |-> Str("No critical turns")]]

\* What populateTrafficAnalysis shows for an empty payload.
EmptyTraffic ==
    [class |-> Str("status-poor"),
     score |-> Num(0),
     label |-> Str("Unknown"),
     total_segments_analyzed |-> Num(0),
     average_travel_time_index |-> Num(0),
     average_current_speed |-> Num(0),
     average_free_flow_speed |-> Num(0),
     heavy_traffic_segments |-> Num(0),
     free_flow_segments |-> Num(0),
     bars |-> [i \in 1..4 |->
                  [label |-> congestionSegments[i].label,
                   count |-> Num(0),
                   percentage |-> <<0, 0>>]],
     recommendations |-> LowScoreRecommendations \o GeneralTrafficRecommendations]

\* What the other renderers show for an empty payload: the classes are
\* those of the scores 0 and of the label 'Unknown'.
EmptyRouteDetails ==
    [id |-> Str("Unknown"),
     origin |-> Str("Unknown Location"),
     destination |-> Str("Unknown Location"),
     distance |-> Str("Unknown"),
     duration |-> Str("Unknown")]

EmptyCompliance ==
    [class |-> getComplianceClass(Num(0)),
     level |-> Str("Unknown"),
     score |-> Num(0),
     vehicleType |-> Str("Unknown"),
     ais140 |-> Str("NO"),
     issues |-> Arr(<<>>)]

EmptySharpTurns ==
    [total_turns |-> Num(0),
     extreme |-> Num(0),
     high |-> Num(0),
     moderate |-> Num(0),
     cards |-> Str("No critical turns data available")]

EmptyPointsOfInterest ==
    [class |-> getServiceClass(Num(0)),
     score |-> Num(0),
     total_pois |-> Num(0),
     emergency_services |-> Num(0),
     essential_services |-> Num(0),
     other_services |-> Num(0),
     categories |-> [i \in 1..6 |->
                        [name |-> poiCategories[i].name, count |-> Num(0)]]]

EmptyNetworkCoverage ==
    [class |-> getCoverageClass(Num(0)),
     score |-> Num(0),
     total_points_analyzed |-> Num(0),
     dead_zones_count |-> Num(0),
     poor_coverage_count |-> Num(0),
     good_coverage_percentage |-> Num(0),
     bars |-> [i \in 1..5 |->
                  [label |-> qualities[i].label,
                   count |-> Num(0),
                   percentage |-> <<0, 0>>]],
     deadZonesAlert |-> FALSE]

\* The summary shows the temperature 0; the preparation list is the one of
\* a temperature between 10 and 35 without rain or storm.
EmptyWeather ==
    [temperature |-> Num(0),
     humidity |-> Num(0),
     windSpeed |-> Num(0),
     conditions |-> EmptyObject,
     risks |-> Arr(<<>>),
     preparation |-> StandardPreparations]

EmptyEmergency ==
    [class |-> getEmergencyClass(Num(0)),
     score |-> Num(0),
     level |-> Str("Unknown"),
     hospitals |-> Num(0),
     police_stations |-> Num(0),
     fire_stations |-> Num(0)]

EmptyElevation ==
    [class |-> getTerrainClass(Str("Unknown")),
     terrain_type |-> Str("Unknown"),
     driving_difficulty |-> Str("Unknown"),
     min_elevation |-> Num(0),
     max_elevation |-> Num(0),
     average_elevation |-> Num(0),
     elevation_range |-> Num(0),
     significantChanges |-> Arr(<<>>),
     fuel_impact |-> Str("Standard consumption expected"),
     challenges |-> FlatTerrainChallenges,
     preparation |-> LowElevationPreparations]

EmptyView(section) ==
    CASE section = "populateRouteDetails" -> EmptyRouteDetails
      [] section = "populateSafetyCompliance" -> EmptyCompliance
      [] section = "populateSharpTurnsSection" -> EmptySharpTurns
      [] section = "populatePointsOfInterest" -> EmptyPointsOfInterest
      [] section = "populateNetworkCoverage" -> EmptyNetworkCoverage
      [] section = "populateEmergencyPlanning" -> EmptyEmergency
      [] section = "populateElevationTerrain" -> EmptyElevation

\* The step is a call of the renderer of section, taken when the payload of
\* category in reportData is an empty object.
CalledOnEmptyPayload(section, category) ==
    /\ applied = "none"
    /\ applied' = section
    /\ Get(reportData, category) = EmptyObject

\* Every renderer but the overview's completes on an empty payload and shows
\* the defaults.
EmptyPayloadDefaults ==
    /\ CalledOnEmptyPayload("riskZones", "turns") =>
           /\ result' # TypeError
           /\ result'.criticalTurns = Arr(<<>>)
           /\ result'.blindSpots = Arr(<<>>)
           /\ Get(reportData, "network") \in {EmptyObject, ErrorPayload} =>
                  result'.deadZones = Arr(<<>>)
    /\ CalledOnEmptyPayload("trafficAnalysis", "traffic") =>
           result' = EmptyTraffic
    /\ CalledOnEmptyPayload("weatherAnalysis", "weather") =>
           result' = EmptyWeather
    /\ \A section \in DirectSections :
           CalledOnEmptyPayload(section, CategoryOf(section)) =>
               /\ result' = EmptyView(section)
               /\ ~Populate(section, reportData, dom).threw

\* C25 as stated: on an empty payload every renderer completes without
\* raising and shows 0 for every missing score and count, 'Unknown' or a
\* variant of it for every missing label, an empty list for every missing
\* list, and the classes of these defaults.
C25_ZeroForEveryScore ==
    [][/\ CalledOnEmptyPayload("overviewSection", "overview") =>
              result' = EmptyOverview(Num(0))
       /\ EmptyPayloadDefaults]_vars

\* C25: on an empty payload the renderer of every category completes
\* without raising and shows 0 for every missing score and count except the
\* Safety Score cell of the overview statistics table, which shows 'N/A';
\* 'Unknown', 'Unknown Location', 'Not specified' or 'Not calculated' for
\* every missing label, 'NO' for the AIS-140 flag and 'Standard consumption
\* expected' for the fuel impact; an empty list for every missing list; the
\* classes of the defaults 0 and 'Unknown'; and the weather preparation
\* advice of a temperature of 25 degrees, next to a displayed temperature of 0.
C25_DefaultsOnEmptyPayload ==
    [][/\ CalledOnEmptyPayload("overviewSection", "overview") =>
              result' = EmptyOverview(Str("N/A"))
       /\ EmptyPayloadDefaults]_vars

\* populateOverviewSection was called after the build loaded an empty
\* overview payload and rendered it: the safety indicator shows the class of
\* the score 0.
C25_Witness ==
    /\ applied = "overviewSection"
    /\ pc = "done"
    /\ Get(reportData, "overview") = EmptyObject
    /\ result \notin {TypeError, Str("Overview data not available")}
    /\ result.statusIndicators.safetyClass = getStatusClass(Num(0))

---------------------------------------------------------------------------
(* C26 *)

\* The route whose data reportData holds, and which the sections rendered
\* from it show.
RouteOfReportData ==
    Get(Get(Get(reportData, "overview"), "route_info"), "id")

\* C26: when a second initializeReport for another route starts while
\* requests of the first are pending, then after both calls have finished
\* reportData, from which the sections were rendered last, holds the data of
\* the route in currentRouteId, in whatever order the requests settled.
C26_OneRouteAfterOverlap ==
    pc = "done" /\ second.pc = "done" => RouteOfReportData = currentRouteId

---------------------------------------------------------------------------
(* C27 *)

\* A section renderer raised during the build.
RendererRaised == \E j \in 1..Len(ran) : ran[j].raised

\* The overlay is displayed while the build is under way and while a request
\* is unsettled; when initializeReport has ended the overlay is hidden, and
\* showError was called once, with the overlay still displayed, when a
\* renderer raised, and not at all when every section rendered.
OverlayShownUntilEnd ==
    /\ pc \in {"awaiting", "loaded", "rejected"} => overlay = "flex"
    /\ (\E i \in 1..9 : UnsettledRequest(i)) => overlay = "flex"
    /\ pc = "done" =>
           /\ overlay = "none"
           /\ alerts = IF RendererRaised
                       THEN <<Alert(showError("Failed to load report data"),
                                    "flex")>>
                       ELSE <<>>

\* The overview body that makes populateOverviewSection raise was decoded.
RaisingBodyDecoded ==
    DecodedRequest(1) /\ network[1].body = NumericRiskOverview

\* C27: the loading overlay is shown from the start of initializeReport until
\* the build ends and is never hidden while a request is pending; once all
\* nine requests have settled the overlay is eventually hidden, after no
\* showError when all sections render, and after exactly one showError,
\* called before the hiding, when a renderer raises.
C27_OverlayFollowsBuild ==
    /\ []OverlayShownUntilEnd
    /\ (AllSettled /\ ~RaisingBodyDecoded)
           ~> (overlay = "none" /\ ~RendererRaised /\ alerts = <<>>)
    /\ (AllSettled /\ RaisingBodyDecoded)
           ~> (overlay = "none" /\ RendererRaised /\ Len(alerts) = 1)

\* A renderer raised, the error was shown once while the overlay was
\* displayed, and the overlay is hidden.
C27_Witness ==
    /\ pc = "done"
    /\ RendererRaised
    /\ Len(alerts) = 1
    /\ alerts[1].overlay = "flex"
    /\ overlay = "none"

---------------------------------------------------------------------------
(* C28 *)

\* The containers the template serves with a loading placeholder.
PlaceholderContainers == {c \in Containers : InitialDom[c] = LoadingPlaceholder}

\* C28: when initializeReport has ended and no renderer raised, every
\* container that started with a loading placeholder has been overwritten,
\* with data or with a not-available message, whichever categories failed.
C28_NoPlaceholderLeft ==
    pc = "done" /\ Len(ran) = 14 /\ ~RendererRaised =>
        \A c \in PlaceholderContainers : dom[c] # LoadingPlaceholder

---------------------------------------------------------------------------
(* C29 *)

\* The position of a section in the document.
Position(id) == CHOOSE i \in DOMAIN reportSections : reportSections[i] = id

\* C29: after setupSidebarNavigation at most one sidebar link is active;
\* right after a click it is exactly the clicked link, right after a scroll
\* it is the link of the section that spans the 100px line (the last such
\* section of the document), or no link when no section spans the line.
C29_OneActiveLink ==
    /\ Cardinality(activeLinks) <= 1
    /\ event.type = "click" => activeLinks = {event.link}
    /\ event.type = "scroll" =>
           /\ event.spanning = {} => activeLinks = {}
           /\ \A id \in event.spanning :
                  (\A other \in event.spanning : Position(other) <= Position(id))
                      => activeLinks = {<<"#", id>>}

\* The page was scrolled so that two sections touch the 100px line: the link
\* of the later one is the active one, and the first link no longer is.
C29_Witness ==
    /\ event.type = "scroll"
    /\ event.spanning = {"risk-zones", "seasonal-conditions"}
    /\ activeLinks = {<<"#", "seasonal-conditions">>}

---------------------------------------------------------------------------
(* C30 *)

\* C30: after any sequence of DOMContentLoaded and resize events the
\* navigation bar holds at most one mobile menu button, and none when the
\* window was never 768px wide or narrower.
C30_AtMostOneMenuButton ==
    /\ menuButtons <= 1
    /\ narrowest > 768 => menuButtons = 0

====
